---- MODULE Spec2Model ----
(***************************************************************************)
(* Upload orchestration of yitao3/pptupload: the direct upload route       *)
(* (src/route.ts), the streamed conversion route and the AI-assisted       *)
(* process-ppt route (src/unnamed/part_002), run against an object store   *)
(* (r2), two tables (ppt_files, ppt_previews), a scratch disk (fsDirs) and *)
(* a millisecond clock.  Every await of a handler is one step.             *)
(***************************************************************************)
EXTENDS Integers, Sequences, FiniteSets, TLC

\* ------------------------------------------------------------ bounds
MaxPages == 2
MaxClock == 2

\* ------------------------------------------------- program constants
MinPageCount == 10
MaxSize == 100 * 1024 * 1024

Reqs == {1, 2}
Null == "NULL"
NoId == <<"none", 0>>
NoDir == 0
NoKey == [id |-> NoId, kind |-> "none", file |-> <<>>, n |-> 0]
NoSlug == <<Null, <<>>>>
NoResp == [status |-> 0, body |-> "none"]
NoMetadata == [title |-> Null, slug |-> Null, category |-> Null]

\* ------------------------------------------------------ pure helpers
\* String.prototype.toLowerCase on the extensions the inputs use.
ToLowerCase(s) == IF s = "PPT" THEN "ppt" ELSE IF s = "PPTX" THEN "pptx" ELSE s

\* file.name.split('.').pop()?.toLowerCase(); a name is its '.'-separated parts.
FileType(name) == ToLowerCase(name[Len(name)])

\* path.extname(file.name).slice(1)
ExtName(name) == IF Len(name) > 1 THEN name[Len(name)] ELSE ""

AllowedTypes == {"ppt", "pptx"}

\* slugify(title, { lower: true, strict: true }) on the titles the inputs use.
Slugify(t) ==
  IF t = "Q3 Review" THEN "q3-review" ELSE IF t = "Budget" THEN "budget" ELSE t

\* Number.prototype.toString(base) as a sequence of digits, most significant first.
RECURSIVE Digits(_, _)
Digits(n, base) ==
  IF n < base THEN <<n>> ELSE Append(Digits(n \div base, base), n % base)

\* String.prototype.slice(-k)
SliceLast(s, k) == IF Len(s) <= k THEN s ELSE SubSeq(s, Len(s) - k + 1, Len(s))

\* `${slugify(title, ...)}-${Date.now()}`
StreamSlug(title, now) == <<Slugify(title), Digits(now, 10)>>

\* `${metadata.slug}-${Date.now().toString(36).slice(-6)}`
UniqueSlug(base, now) == <<base, SliceLast(Digits(now, 36), 6)>>

\* Storage keys: `ppt-files/${id}/original/${file.name}` and
\* `ppt-files/${id}/previews/<file>`; n is the page number inside <file>.
OriginalKey(id, name) == [id |-> id, kind |-> "original", file |-> name, n |-> 0]
PreviewsKey(id, file, n) == [id |-> id, kind |-> "previews", file |-> file, n |-> n]

\* The path segments of an original-file key: ppt-files / id / original / name.
KeyPath(key) == << <<"ppt-files">>, key.id, <<key.kind>>, key.file >>

\* route.ts lines 56 and 147: `${process.env.R2_PUBLIC_URL}/${fileName}` with
\* fileName = `${timestamp}-${file.name}`: one path segment after the base.
FileUrl(timestamp, name) ==
  [base |-> "R2_PUBLIC_URL", path |-> << <<"ts", timestamp, "-">> \o name >>]

\* A blob store put: full overwrite of the key.
PutObject(store, key, body) ==
  [k \in (DOMAIN store) \cup {key} |-> IF k = key THEN body ELSE store[k]]

SeqToSet(s) == {s[i] : i \in 1..Len(s)}

\* ------------------------------------------------------------ state
VARIABLES
  live,          \* the requests of this run
  convOutputs,   \* what the converter subprocess can print in this run
  clock,         \* Date.now()
  idGen,         \* ids handed out so far (uuidv4 and the tables' generated ids)
  dirGen,        \* directories fs.mkdtemp has created so far
  fsDirs,        \* temporary directories that exist on disk
  r2,            \* object store: key -> body
  ppt_files,     \* rows of table ppt_files
  ppt_previews,  \* rows of table ppt_previews
  req,           \* the request's form data
  pc,            \* where the request's handler is
  loc,           \* the handler's local variables
  stream,        \* the streamed response: events enqueued, controller state
  resp,          \* the JSON response returned
  tasks,         \* streamed upload: the per-page upload tasks
  calls,         \* subprocess and HTTP calls issued by the request
  settled,       \* streamed upload: the pages whose task is fulfilled, in that order
  proc,          \* the converter subprocess of the request
  puts,          \* the keys of the PutObjectCommands the request has sent, in order
  tmpFiles,      \* extract-text: temporary files that exist in os.tmpdir()
  BatchUploadPage, \* the batch-upload page: its state and its processing run
  TestUpload     \* the upload form: its state and its pending promises

vars == <<live, convOutputs, clock, idGen, dirGen, fsDirs, r2, ppt_files,
          ppt_previews, req, pc, loc, stream, resp, tasks, calls, settled,
          proc, puts, tmpFiles, BatchUploadPage, TestUpload>>

\* The server's state, and the state of the two browser pages.
server == <<live, convOutputs, clock, idGen, dirGen, fsDirs, r2, ppt_files,
            ppt_previews, req, pc, loc, stream, resp, tasks, calls, settled,
            proc, puts, tmpFiles>>
browser == <<BatchUploadPage, TestUpload>>

\* What a run fixes at its start.
env == <<live, convOutputs, req>>

Pipelines == {"direct", "stream", "ai"}
FileNames == {<<"deck", "pptx">>, <<"deck", "PPT">>, <<"deck", "key">>, <<"deck">>}
Sizes == {MaxSize, MaxSize + 1}
Titles == {"Q3 Review", "Budget"}

\* formData.get('previews') / formData.get('thumbnails') of the direct upload.
RawArrays ==
  {[kind |-> k, len |-> 0] : k \in {"missing", "object", "garbage"}}
    \cup {[kind |-> "array", len |-> n] : n \in 0..MaxPages}

NoRaw == [kind |-> "missing", len |-> 0]

FormData(p, hasFile, name, size, title, category, previews, thumbnails) ==
  [pipeline |-> p, hasFile |-> hasFile, name |-> name, size |-> size,
   title |-> title, category |-> category,
   previews |-> previews, thumbnails |-> thumbnails]

\* Every form a client can post to one of the three routes.
AllForms ==
  {FormData("direct", TRUE, n, s, t, c, p, th) :
     n \in FileNames, s \in Sizes, t \in {Null, "Q3 Review"},
     c \in {Null, "Business"}, p \in RawArrays, th \in RawArrays}
  \cup {FormData("stream", TRUE, n, s, t, c, NoRaw, NoRaw) :
     n \in FileNames, s \in Sizes, t \in {Null, "Q3 Review"},
     c \in {Null, "Business"}}
  \cup {FormData("ai", TRUE, n, s, Null, Null, NoRaw, NoRaw) :
     n \in FileNames, s \in Sizes}
  \cup {FormData(p, FALSE, <<"deck">>, MaxSize, "Q3 Review", "Business", NoRaw, NoRaw) :
     p \in Pipelines}

\* ------------------------------------------------- converter output
\* The JSON object convert.py prints: page_count, previews, thumbnails (paths
\* of the image files it wrote, here the file name and page of each).
ConvJson(pageCount, np, nt, hasPreviews) ==
  [page_count |-> pageCount, hasPreviews |-> hasPreviews,
   previews |-> [k \in 1..np |-> [file |-> <<"page", "jpg">>, n |-> k]],
   thumbnails |-> [k \in 1..nt |-> [file |-> <<"page", "thumb", "jpg">>, n |-> k]]]

NoJson == ConvJson(0, 0, 0, FALSE)
LogLine == [t |-> "log", v |-> NoJson]
BlankLine == [t |-> "blank", v |-> NoJson]
JsonLine(j) == [t |-> "json", v |-> j]

\* Standard output as its lines: the JSON line alone, the JSON line after a
\* log line (only for the well-formed results W), or a log line alone.
Stdouts(J, W) ==
  {<<JsonLine(j), BlankLine>> : j \in J}
    \cup {<<LogLine, JsonLine(j), BlankLine>> : j \in W}
    \cup {<<LogLine, BlankLine>>}

\* How the subprocess ends: spawn error (no code), exit 1, or exit 0 with stdout.
Exits(S) ==
  {[code |-> 0, stdout |-> s] : s \in S}
    \cup {[code |-> 1, stdout |-> <<LogLine>>], [code |-> -1, stdout |-> <<>>]}

\* No converter outcome yet.
NoOut == [code |-> -2, stdout |-> <<>>]

StreamJsons ==
  {ConvJson(np, np, nt, TRUE) : np \in 0..MaxPages, nt \in 0..MaxPages}
    \cup {ConvJson(0, 0, 0, FALSE)}

AiLens == {0, MinPageCount - 1, MinPageCount}

AiJsons ==
  {ConvJson(c, np, nt, TRUE) : c \in AiLens, np \in AiLens, nt \in AiLens \ {0}}
    \cup {ConvJson(MinPageCount, 0, 0, FALSE)}

AllOutputs ==
  [stream |-> Exits(Stdouts(StreamJsons, {ConvJson(MaxPages, MaxPages, MaxPages, TRUE)})),
   ai |-> Exits(Stdouts(AiJsons, {ConvJson(MinPageCount, MinPageCount, MinPageCount, TRUE)}))]

\* String.prototype.trim on the lines: leading and trailing blank lines go.
RECURSIVE TrimEnd(_)
TrimEnd(lines) ==
  IF Len(lines) > 0 /\ lines[Len(lines)].t = "blank"
    THEN TrimEnd(SubSeq(lines, 1, Len(lines) - 1)) ELSE lines

RECURSIVE TrimStart(_)
TrimStart(lines) ==
  IF Len(lines) > 0 /\ lines[1].t = "blank" THEN TrimStart(Tail(lines)) ELSE lines

Trim(lines) == TrimEnd(TrimStart(lines))

\* runPythonConverter, exit code 0: JSON.parse of the last line of the trimmed
\* stdout (part_002 lines 110-112).
ParseLastLine(stdout) ==
  LET lines == Trim(stdout)
  IN IF Len(lines) > 0 /\ lines[Len(lines)].t = "json"
       THEN [ok |-> TRUE, v |-> lines[Len(lines)].v]
       ELSE [ok |-> FALSE, v |-> NoJson]

\* process-ppt: JSON.parse(convertOutputJson.trim()) (part_002 line 518).
ParseWhole(stdout) ==
  LET lines == Trim(stdout)
  IN IF Len(lines) = 1 /\ lines[1].t = "json"
       THEN [ok |-> TRUE, v |-> lines[1].v]
       ELSE [ok |-> FALSE, v |-> NoJson]

\* --------------------------------- classify-text and extract-text input
\* JavaScript values of the JSON body's members.
Undefined == [type |-> "undefined", v |-> ""]
Str(v) == [type |-> "string", v |-> v]
Num(v) == [type |-> "number", v |-> v]

\* `!x` is false: a non-empty string or a non-zero number.
Truthy(x) ==
  \/ x.type = "string" /\ x.v # ""
  \/ x.type = "number" /\ x.v # "0"

\* What req.json() gives: it throws (malformed), or the object's text and filename.
Bodies ==
  {[kind |-> "malformed", text |-> Undefined, filename |-> Undefined]}
    \cup {[kind |-> "object", text |-> t, filename |-> f] :
            t \in {Undefined, Str(""), Str("slides"), Num("42")},
            f \in {Undefined, Str("deck.pptx"), Num("7")}}

ClassifyForms ==
  {[pipeline |-> "classify", body |-> b, apiKey |-> k] : b \in Bodies, k \in BOOLEAN}

PptxMime == "application/vnd.openxmlformats-officedocument.presentationml.presentation"

ExtractForms ==
  {[pipeline |-> "extract", hasFile |-> TRUE, name |-> n, type |-> t] :
     n \in {<<"deck", "pptx">>, <<"deck", "PPTX">>, <<"deck", "ppt">>, <<"deck", "key">>},
     t \in {PptxMime, "application/octet-stream"}}
  \cup {[pipeline |-> "extract", hasFile |-> FALSE, name |-> <<"deck">>, type |-> ""]}

TextForms == ClassifyForms \cup ExtractForms

\* The message content of the model's reply: JSON text of a metadata object,
\* the same inside a Markdown fence, prose, the empty string, or none.
Content(t, m) == [t |-> t, v |-> m]
NoContent == Content("none", NoMetadata)

Contents ==
  {Content("json", [title |-> "Q3 Review", slug |-> "q3-review",
                    category |-> "Business & Corporate"]),
   Content("fenced", [title |-> "Q3 Review", slug |-> "q3-review",
                      category |-> "Business & Corporate"]),
   Content("prose", NoMetadata), Content("empty", NoMetadata), NoContent}

\* What fetch resolves to: a non-OK reply with a text body, an OK reply whose
\* body is not JSON, or an OK reply with (or without) message content.
Replies ==
  {[ok |-> FALSE, status |-> st, json |-> FALSE, text |-> "quota exceeded",
    content |-> NoContent] : st \in {401, 500}}
  \cup {[ok |-> TRUE, status |-> 200, json |-> FALSE, text |-> "<html>", content |-> NoContent]}
  \cup {[ok |-> TRUE, status |-> 200, json |-> TRUE, text |-> "", content |-> c] :
          c \in Contents}

NoReply == [ok |-> FALSE, status |-> 0, json |-> FALSE, text |-> "", content |-> NoContent]

\* `!content` is false: the content is a non-empty string.
HasContent(c) == c.t \notin {"none", "empty"}

\* JSON.parse(content)
JsonParse(c) ==
  IF c.t = "json" THEN [ok |-> TRUE, v |-> c.v] ELSE [ok |-> FALSE, v |-> NoMetadata]

NoPath == <<0, <<>>>>
NoExit == [code |-> -2, stderr |-> ""]

\* How the extractor ends: exit 0, exit 1 (python-pptx missing, or another
\* error), the spawn fails, or reading its output throws.
ExtractExits ==
  {[code |-> 0, stderr |-> ""], [code |-> 1, stderr |-> "No module named 'pptx'"],
   [code |-> 1, stderr |-> "Traceback"], [code |-> -1, stderr |-> "spawn"],
   [code |-> -3, stderr |-> "read"]}

\* The extractor child process: how it will end, whether its stdout and
\* stderr have ended, whether it has exited, and the event it has emitted
\* ("lost" marks an event emitted while no listener was registered).
NoChild ==
  [will |-> NoExit, stdout |-> "none", stderr |-> "none", exited |-> FALSE,
   emitted |-> "none", lost |-> FALSE]

NoForm == FormData("ai", FALSE, <<"deck">>, MaxSize, Null, Null, NoRaw, NoRaw)

NoLoc ==
  [tempDir |-> NoDir, timestamp |-> 0, pptKey |-> NoKey, pptId |-> NoId,
   slug |-> NoSlug, pageCount |-> -1, i |-> 0, previews |-> <<>>,
   thumbnails |-> <<>>, previewRecords |-> <<>>, originalFileKey |-> NoKey,
   thumbnailKey |-> NoKey, metadata |-> NoMetadata, error |-> Null, inserted |-> FALSE,
   reply |-> NoReply, tempFilePath |-> NoPath, exitCode |-> NoExit,
   convOut |-> NoOut, pythonProcess |-> NoChild]

NoStream == [events |-> <<>>, state |-> "none"]

\* batch-upload/page.tsx lines 37-38: useState([]), useState(false); no run.
NoBatch ==
  [files |-> <<>>, isProcessing |-> FALSE, filesToProcess |-> <<>>, i |-> 0,
   at |-> "idle"]

\* TestUpload lines 127-137: the form's initial state; nothing pending.
NoUpload ==
  [file |-> FALSE, title |-> "", uploading |-> FALSE, zipFile |-> "none",
   previewImages |-> <<>>, thumbnails |-> <<>>, loading |-> {}, generating |-> {},
   sent |-> {}]

InitWith(L, forms, outputs) ==
  /\ live = L
  /\ convOutputs = outputs
  /\ clock = 1
  /\ idGen = 0
  /\ dirGen = 0
  /\ fsDirs = {}
  /\ r2 = <<>>
  /\ ppt_files = {}
  /\ ppt_previews = {}
  /\ \E f \in [L -> forms] : req = [r \in Reqs |-> IF r \in L THEN f[r] ELSE NoForm]
  /\ pc = [r \in Reqs |-> IF r \in L THEN "start" ELSE "idle"]
  /\ loc = [r \in Reqs |-> NoLoc]
  /\ stream = [r \in Reqs |-> NoStream]
  /\ resp = [r \in Reqs |-> NoResp]
  /\ tasks = [r \in Reqs |-> <<>>]
  /\ calls = [r \in Reqs |-> {}]
  /\ settled = [r \in Reqs |-> <<>>]
  /\ BatchUploadPage = NoBatch
  /\ TestUpload = NoUpload
  /\ proc = [r \in Reqs |-> "none"]
  /\ puts = [r \in Reqs |-> <<>>]
  /\ tmpFiles = {}

Init == InitWith({1}, AllForms, AllOutputs)

\* Two concurrent requests: well-formed forms and converter results.
TwoForms ==
  {FormData("direct", TRUE, <<"deck", "pptx">>, MaxSize, t, "Business",
            [kind |-> "array", len |-> 1], [kind |-> "array", len |-> 1]) : t \in Titles}
  \cup {FormData("stream", TRUE, <<"deck", "pptx">>, MaxSize, t, "Business", NoRaw, NoRaw) :
          t \in Titles}
  \cup {FormData("ai", TRUE, <<"deck", "pptx">>, MaxSize, Null, Null, NoRaw, NoRaw)}

TwoOutputs ==
  [stream |-> Exits({<<JsonLine(ConvJson(1, 1, 1, TRUE)), BlankLine>>}),
   ai |-> Exits({<<JsonLine(ConvJson(c, c, c, TRUE)), BlankLine>> :
                   c \in {MinPageCount - 1, MinPageCount}})]

InitTwo ==
  /\ InitWith(Reqs, TwoForms, TwoOutputs)
  /\ req[1].pipeline = req[2].pipeline
  /\ req[1].title \in {Null, "Q3 Review"}

\* The clock advances between any two steps.
Tick ==
  /\ clock < MaxClock
  /\ clock' = clock + 1
  /\ UNCHANGED <<env, browser, proc, puts, tmpFiles, settled, idGen, dirGen, fsDirs, r2, ppt_files, ppt_previews,  pc, loc,
                 stream, resp, tasks, calls>>

\* NextResponse.json(body, { status }) returned: the handler is over.
Respond(r, response) ==
  /\ resp' = [resp EXCEPT ![r] = response]
  /\ pc' = [pc EXCEPT ![r] = "done"]

\* ------------------------------------------------ direct upload route
\* The outer catch of the direct route: 500 { success: false, message, error }.
DirectCatch(r, message) ==
  Respond(r, [status |-> 500, body |-> "failed", error |-> message])

\* Lines 25-56: read the form, validate, take the timestamp.
DirectValidate(r) ==
  /\ pc[r] = "start" /\ req[r].pipeline = "direct"
  /\ IF ~req[r].hasFile
       THEN /\ Respond(r, [status |-> 400, body |-> "invalid", message |-> "No file provided"])
            /\ UNCHANGED loc
     ELSE IF req[r].title \in {Null, ""}
       THEN /\ Respond(r, [status |-> 400, body |-> "invalid", message |-> "Title is required"])
            /\ UNCHANGED loc
     ELSE IF FileType(req[r].name) \notin AllowedTypes
       THEN /\ Respond(r, [status |-> 400, body |-> "invalid", message |-> "Only PPT/PPTX files are allowed"])
            /\ UNCHANGED loc
     ELSE /\ loc' = [loc EXCEPT ![r].timestamp = clock,
                                ![r].pptKey = OriginalKey(<<"ts", clock>>, req[r].name)]
          /\ pc' = [pc EXCEPT ![r] = "d_put"]
          /\ UNCHANGED resp
  /\ UNCHANGED <<env, browser, proc, puts, tmpFiles, settled, clock, idGen, dirGen, fsDirs, r2, ppt_files, ppt_previews, 
                 stream, tasks, calls>>

\* Lines 58-65: put the original under pptKey.
DirectPutOriginal(r) ==
  /\ pc[r] = "d_put"
  /\ puts' = [puts EXCEPT ![r] = Append(@, loc[r].pptKey)]
  /\ \E ok \in BOOLEAN :
       IF ok
         THEN /\ r2' = PutObject(r2, loc[r].pptKey, [by |-> r, data |-> "original"])
              /\ pc' = [pc EXCEPT ![r] = "d_parse"]
              /\ UNCHANGED resp
         ELSE /\ DirectCatch(r, "put failed")
              /\ UNCHANGED r2
  /\ UNCHANGED <<env, browser, proc, tmpFiles, settled, clock, idGen, dirGen, fsDirs, ppt_files, ppt_previews,  loc,
                 stream, tasks, calls>>

\* Lines 68-82: previews and thumbnails of the form, JSON.parse, Array.isArray.
DirectParsePreviews(r) ==
  /\ pc[r] = "d_parse"
  /\ LET p == req[r].previews
         t == req[r].thumbnails
     IN IF p.kind = "missing" \/ t.kind = "missing"
          THEN /\ Respond(r, [status |-> 400, body |-> "invalid",
                              message |-> "Missing previews or thumbnails data"])
               /\ UNCHANGED loc
        ELSE IF p.kind = "garbage" \/ t.kind = "garbage"
          THEN /\ DirectCatch(r, "JSON.parse")
               /\ UNCHANGED loc
        ELSE IF p.kind # "array" \/ t.kind # "array"
          THEN /\ Respond(r, [status |-> 400, body |-> "invalid",
                              message |-> "Invalid previews or thumbnails data"])
               /\ UNCHANGED loc
        ELSE /\ loc' = [loc EXCEPT ![r].pageCount = p.len,
                                   ![r].previews = [k \in 1..p.len |-> k],
                                   ![r].thumbnails = [k \in 1..t.len |-> k]]
             /\ pc' = [pc EXCEPT ![r] = "d_insert"]
             /\ UNCHANGED resp
  /\ UNCHANGED <<env, browser, proc, puts, tmpFiles, settled, clock, idGen, dirGen, fsDirs, r2, ppt_files, ppt_previews, 
                 stream, tasks, calls>>

\* The row the direct route inserts into ppt_files (lines 87-96).
DirectFileRow(r, id) ==
  [id |-> id, title |-> req[r].title, slug |-> NoSlug,
   category |-> req[r].category, file_name |-> req[r].name,
   file_size |-> req[r].size, file_type |-> FileType(req[r].name),
   page_count |-> loc[r].pageCount, r2_file_key |-> loc[r].pptKey,
   r2_thumbnail_key |-> NoKey]

\* Lines 85-100: insert the file row; the table generates the id.
DirectInsertFile(r) ==
  /\ pc[r] = "d_insert"
  /\ \E ok \in BOOLEAN :
       IF ok
         THEN /\ idGen' = idGen + 1
              /\ ppt_files' = ppt_files \cup {DirectFileRow(r, <<"uuid", idGen + 1>>)}
              /\ loc' = [loc EXCEPT ![r].pptId = <<"uuid", idGen + 1>>,
                                    ![r].inserted = TRUE, ![r].i = 0]
              /\ pc' = [pc EXCEPT ![r] = "d_loop"]
         ELSE /\ pc' = [pc EXCEPT ![r] = "d_comp"]
              /\ loc' = [loc EXCEPT ![r].error = "pptError"]
              /\ UNCHANGED <<idGen, ppt_files>>
  /\ UNCHANGED <<env, browser, proc, puts, tmpFiles, settled, clock, dirGen, fsDirs, r2, ppt_previews,  stream, resp, tasks, calls>>

\* Lines 100-108: on pptError a second PutObjectCommand, without Body, on pptKey,
\* then throw.
DirectCompensate(r) ==
  /\ pc[r] = "d_comp"
  /\ puts' = [puts EXCEPT ![r] = Append(@, loc[r].pptKey)]
  /\ \E ok \in BOOLEAN :
       IF ok
         THEN /\ r2' = PutObject(r2, loc[r].pptKey, [by |-> r, data |-> "empty"])
              /\ DirectCatch(r, "Database error")
         ELSE /\ DirectCatch(r, "put failed")
              /\ UNCHANGED r2
  /\ UNCHANGED <<env, browser, proc, tmpFiles, settled, clock, idGen, dirGen, fsDirs, ppt_files, ppt_previews,  loc,
                 stream, tasks, calls>>

\* Lines 111-121: put preview i+1 under page-<i+1>.jpg.
DirectPutPreview(r) ==
  /\ pc[r] = "d_loop" /\ loc[r].i < Len(loc[r].previews)
  /\ puts' = [puts EXCEPT ![r] = Append(@, PreviewsKey(<<"ts", loc[r].timestamp>>, <<"page", "jpg">>, loc[r].i + 1))]
  /\ \E ok \in BOOLEAN :
       IF ok
         THEN /\ r2' = PutObject(r2,
                         PreviewsKey(<<"ts", loc[r].timestamp>>, <<"page", "jpg">>, loc[r].i + 1),
                         [by |-> r, data |-> "preview"])
              /\ pc' = [pc EXCEPT ![r] = "d_thumb"]
              /\ UNCHANGED resp
         ELSE /\ DirectCatch(r, "put failed")
              /\ UNCHANGED r2
  /\ UNCHANGED <<env, browser, proc, tmpFiles, settled, clock, idGen, dirGen, fsDirs, ppt_files, ppt_previews,  loc,
                 stream, tasks, calls>>

\* Lines 123-129: put thumbnail i+1; thumbnails[i] of a shorter array is
\* undefined and undefined.split throws.
DirectPutThumbnail(r) ==
  /\ pc[r] = "d_thumb"
  /\ puts' = [puts EXCEPT ![r] =
                IF loc[r].i + 1 > Len(loc[r].thumbnails)
                  THEN @
                  ELSE Append(@, PreviewsKey(<<"ts", loc[r].timestamp>>,
                                             <<"page", "thumb", "jpg">>, loc[r].i + 1))]
  /\ \E ok \in BOOLEAN :
       IF loc[r].i + 1 > Len(loc[r].thumbnails)
         THEN /\ DirectCatch(r, "TypeError")
              /\ UNCHANGED r2
       ELSE IF ok
         THEN /\ r2' = PutObject(r2,
                         PreviewsKey(<<"ts", loc[r].timestamp>>, <<"page", "thumb", "jpg">>, loc[r].i + 1),
                         [by |-> r, data |-> "thumbnail"])
              /\ pc' = [pc EXCEPT ![r] = "d_row"]
              /\ UNCHANGED resp
         ELSE /\ DirectCatch(r, "put failed")
              /\ UNCHANGED r2
  /\ UNCHANGED <<env, browser, proc, tmpFiles, settled, clock, idGen, dirGen, fsDirs, ppt_files, ppt_previews,  loc,
                 stream, tasks, calls>>

\* Lines 131-138: insert the preview row of page i+1; the returned { error }
\* is not read.
DirectInsertPreview(r) ==
  /\ pc[r] = "d_row"
  /\ \E ok \in BOOLEAN :
       ppt_previews' =
         IF ok
           THEN ppt_previews \cup
                  {[ppt_id |-> loc[r].pptId, page_number |-> loc[r].i + 1,
                    preview_url |-> PreviewsKey(<<"ts", loc[r].timestamp>>, <<"page", "jpg">>, loc[r].i + 1),
                    thumbnail_url |-> PreviewsKey(<<"ts", loc[r].timestamp>>, <<"page", "thumb", "jpg">>, loc[r].i + 1)]}
           ELSE ppt_previews
  /\ loc' = [loc EXCEPT ![r].i = loc[r].i + 1]
  /\ pc' = [pc EXCEPT ![r] = "d_loop"]
  /\ UNCHANGED <<env, browser, proc, puts, tmpFiles, settled, clock, idGen, dirGen, fsDirs, r2, ppt_files,  stream, resp, tasks, calls>>

\* Lines 140-152: the loop is over, 200 { success: true, data }.
DirectSuccess(r) ==
  /\ pc[r] = "d_loop" /\ loc[r].i >= Len(loc[r].previews)
  /\ Respond(r, [status |-> 200, body |-> "success", id |-> loc[r].pptId,
                 fileUrl |-> FileUrl(loc[r].timestamp, req[r].name)])
  /\ UNCHANGED <<env, browser, proc, puts, tmpFiles, settled, clock, idGen, dirGen, fsDirs, r2, ppt_files, ppt_previews,  loc,
                 stream, tasks, calls>>

Direct(r) ==
  \/ DirectValidate(r)
  \/ DirectPutOriginal(r)
  \/ DirectParsePreviews(r)
  \/ DirectInsertFile(r)
  \/ DirectCompensate(r)
  \/ DirectPutPreview(r)
  \/ DirectPutThumbnail(r)
  \/ DirectInsertPreview(r)
  \/ DirectSuccess(r)

\* --------------------------------------------- streamed upload route
Event(status) == [status |-> status, slug |-> NoSlug]
DoneEvent(slug) == [status |-> "done", slug |-> slug]

\* sendEvent: controller.enqueue, which throws unless the stream is readable.
SendEvent(s, ev) ==
  IF s.state = "readable" THEN [s EXCEPT !.events = Append(@, ev)] ELSE s

\* close: controller.close, which throws unless the stream is readable.
Close(s) == IF s.state = "readable" THEN [s EXCEPT !.state = "closed"] ELSE s

\* The catch of createStreamResponse (lines 56-60): sendEvent(error), close().
StreamCallbackCatch(s) == Close(SendEvent(s, Event("error")))

\* fs.rm(tempDir, { recursive: true, force: true }) under `if (tempDir)`.
RmTempDir(dirs, tempDir) == IF tempDir # NoDir THEN dirs \ {tempDir} ELSE dirs

\* A step of the callback is over: its sendEvent calls, then on to `to`; the
\* first sendEvent throws when the stream is not readable, with the locals as
\* they are at that call (atThrow).
StreamGoOn(r, evs, atThrow, after, to) ==
  IF evs = <<>> \/ stream[r].state = "readable"
    THEN /\ stream' = [stream EXCEPT ![r].events = @ \o evs]
         /\ loc' = [loc EXCEPT ![r] = after]
         /\ pc' = [pc EXCEPT ![r] = to]
    ELSE /\ loc' = [loc EXCEPT ![r] = [atThrow EXCEPT !.error = "enqueue"]]
         /\ pc' = [pc EXCEPT ![r] = "s_finally"]
         /\ UNCHANGED stream

\* A throw inside the callback's try: the catch rethrows, the finally is next.
StreamThrow(r, l, message) ==
  /\ loc' = [loc EXCEPT ![r] = [l EXCEPT !.error = message]]
  /\ pc' = [pc EXCEPT ![r] = "s_finally"]
  /\ UNCHANGED stream

\* Lines 130-156: the stream is created, the callback validates the form.
StreamValidate(r) ==
  /\ pc[r] = "start" /\ req[r].pipeline = "stream"
  /\ LET s == [events |-> <<>>, state |-> "readable"]
     IN IF ~req[r].hasFile
          THEN /\ stream' = [stream EXCEPT ![r] = s]
               /\ loc' = [loc EXCEPT ![r].error = "no file"]
               /\ pc' = [pc EXCEPT ![r] = "s_finally"]
        ELSE IF req[r].size > MaxSize
          THEN /\ stream' = [stream EXCEPT ![r] = s]
               /\ loc' = [loc EXCEPT ![r].error = "too large"]
               /\ pc' = [pc EXCEPT ![r] = "s_finally"]
        ELSE IF req[r].title \in {Null, ""} \/ req[r].category \in {Null, ""}
          THEN /\ stream' = [stream EXCEPT ![r] = s]
               /\ loc' = [loc EXCEPT ![r].error = "title and category required"]
               /\ pc' = [pc EXCEPT ![r] = "s_finally"]
        ELSE /\ stream' = [stream EXCEPT ![r] = SendEvent(s, Event("info"))]
             /\ pc' = [pc EXCEPT ![r] = "s_mkdtemp"]
             /\ UNCHANGED loc
  /\ UNCHANGED <<env, browser, proc, puts, tmpFiles, settled, clock, idGen, dirGen, fsDirs, r2, ppt_files, ppt_previews,
                 resp, tasks, calls>>

\* The client drops the connection: the stream is cancelled.
ClientAbort(r) ==
  /\ stream[r].state = "readable"
  /\ stream' = [stream EXCEPT ![r].state = "cancelled"]
  /\ UNCHANGED <<env, browser, proc, puts, tmpFiles, settled, clock, idGen, dirGen, fsDirs, r2, ppt_files, ppt_previews,
                 pc, loc, resp, tasks, calls>>

\* Lines 158-160: fs.mkdtemp.
StreamMkdtemp(r) ==
  /\ pc[r] = "s_mkdtemp"
  /\ \E ok \in BOOLEAN :
       IF ok
         THEN /\ dirGen' = dirGen + 1
              /\ fsDirs' = fsDirs \cup {dirGen + 1}
              /\ LET l == [loc[r] EXCEPT !.tempDir = dirGen + 1]
                 IN StreamGoOn(r, <<Event("info")>>, l, l, "s_stage")
         ELSE /\ StreamThrow(r, loc[r], "mkdtemp")
              /\ UNCHANGED <<dirGen, fsDirs>>
  /\ UNCHANGED <<env, browser, proc, puts, tmpFiles, settled, clock, idGen, r2, ppt_files, ppt_previews, resp, tasks, calls>>

\* Lines 162-172: mkdir output, write the uploaded file into the workspace.
StreamStage(r) ==
  /\ pc[r] = "s_stage"
  /\ \E ok \in BOOLEAN :
       IF ok
         THEN StreamGoOn(r, <<Event("info"), Event("processing")>>, loc[r], loc[r], "s_convert")
         ELSE StreamThrow(r, loc[r], "writeFile")
  /\ UNCHANGED <<env, browser, proc, puts, tmpFiles, settled, clock, idGen, dirGen, fsDirs, r2, ppt_files, ppt_previews,
                 resp, tasks, calls>>

\* Mutant of ConverterSettled: the promise settles on the process's exit, when
\* its output may not be fully read yet.
ConverterSettledOnExit(p) == p \in {"exited", "closed"}

\* Lines 106 and 395: the promise of the converter settles on 'close', which
\* the process emits after it has exited and its stdout and stderr have ended.
ConverterSettled(p) == p = "closed"

\* The converter subprocess: it fails to start ('error'), or it exits and
\* then, its output drained, closes.
ConverterStep(r) ==
  /\ \/ proc[r] = "running" /\ \E p \in {"exited", "failed"} : proc' = [proc EXCEPT ![r] = p]
     \/ proc[r] = "exited" /\ proc' = [proc EXCEPT ![r] = "closed"]
  /\ UNCHANGED <<env, browser, puts, tmpFiles, settled, clock, idGen, dirGen, fsDirs, r2, ppt_files,
                 ppt_previews, pc, loc, stream, resp, tasks, calls>>

\* The promise of a converter run that ends as `out` has settled.
Settles(r, out) == IF out.code = -1 THEN proc[r] = "failed" ELSE ConverterSettled(proc[r])

\* Lines 89-93 (called at line 173): spawn convert.py.
StreamSpawn(r) ==
  /\ pc[r] = "s_convert"
  /\ proc' = [proc EXCEPT ![r] = "running"]
  /\ calls' = [calls EXCEPT ![r] = @ \cup {"convert"}]
  /\ pc' = [pc EXCEPT ![r] = "s_wait"]
  /\ UNCHANGED <<env, browser, puts, tmpFiles, settled, clock, idGen, dirGen, fsDirs, r2, ppt_files,
                 ppt_previews, loc, stream, resp, tasks>>

\* Lines 173-185: the result of runPythonConverter and its check, then the id
\* and the slug.
StreamConvert(r) ==
  /\ pc[r] = "s_wait"
  /\ \E out \in convOutputs.stream :
       LET parsed == ParseLastLine(out.stdout)
           j == parsed.v
           l0 == [loc[r] EXCEPT !.convOut = out]
       IN /\ Settles(r, out)
          /\ IF out.code = -1 THEN
               /\ StreamThrow(r, l0, "Failed to start Python script")
               /\ UNCHANGED idGen
             ELSE IF out.code # 0 THEN
               /\ StreamThrow(r, l0, "Python script exited with code")
               /\ UNCHANGED idGen
             ELSE IF ~parsed.ok THEN
               /\ StreamThrow(r, l0, "Failed to parse Python script output")
               /\ UNCHANGED idGen
             ELSE IF ~j.hasPreviews \/ Len(j.previews) # Len(j.thumbnails) THEN
               /\ StreamThrow(r, l0, "invalid conversion result")
               /\ UNCHANGED idGen
             ELSE
               /\ idGen' = idGen + 1
               /\ LET l == [l0 EXCEPT !.previews = j.previews,
                                       !.thumbnails = j.thumbnails]
                      id == <<"uuid", idGen + 1>>
                  IN StreamGoOn(r, <<Event("info"), Event("processing")>>, l,
                       [l EXCEPT !.pptId = id,
                                 !.slug = StreamSlug(req[r].title, clock),
                                 !.originalFileKey = OriginalKey(id, req[r].name)],
                       "s_put")
  /\ UNCHANGED <<env, browser, proc, puts, tmpFiles, settled, clock, dirGen, fsDirs, r2, ppt_files,
                 ppt_previews, resp, tasks, calls>>

\* Lines 187-232: put the original, then start one upload task per page; each
\* task runs up to its first await (fs.readFile of the preview).
StreamPutOriginal(r) ==
  /\ pc[r] = "s_put"
  /\ puts' = [puts EXCEPT ![r] = Append(@, loc[r].originalFileKey)]
  /\ \E ok \in BOOLEAN :
       IF ok
         THEN /\ r2' = PutObject(r2, loc[r].originalFileKey, [by |-> r, data |-> "original"])
              /\ StreamGoOn(r, <<Event("info"), Event("processing")>>, loc[r], loc[r], "s_join")
              /\ tasks' = [tasks EXCEPT ![r] =
                             IF stream[r].state = "readable"
                               THEN [k \in 1..Len(loc[r].previews) |-> "read_preview"]
                               ELSE @]
         ELSE /\ StreamThrow(r, loc[r], "put failed")
              /\ UNCHANGED <<r2, tasks>>
  /\ UNCHANGED <<env, browser, proc, tmpFiles, settled, clock, idGen, dirGen, fsDirs, ppt_files, ppt_previews, resp, calls>>

\* The keys and the record of page k (lines 199-206, 226-231).
StreamPreviewKey(r, k) ==
  PreviewsKey(loc[r].pptId, loc[r].previews[k].file, loc[r].previews[k].n)

StreamThumbnailKey(r, k) ==
  PreviewsKey(loc[r].pptId, loc[r].thumbnails[k].file, loc[r].thumbnails[k].n)

StreamPreviewRecord(r, k) ==
  [ppt_id |-> loc[r].pptId, page_number |-> k,
   preview_url |-> StreamPreviewKey(r, k), thumbnail_url |-> StreamThumbnailKey(r, k)]

\* Lines 202-203: a task reads its preview, then its thumbnail, from the
\* workspace; the read fails when the workspace is gone.
TaskRead(r, k) ==
  /\ tasks[r][k] \in {"read_preview", "read_thumbnail"}
  /\ \E ok \in BOOLEAN :
       tasks' = [tasks EXCEPT ![r][k] =
                   IF ok /\ loc[r].tempDir \in fsDirs
                     THEN (IF @ = "read_preview" THEN "read_thumbnail" ELSE "puts")
                     ELSE "failed"]
  /\ UNCHANGED <<env, browser, proc, puts, tmpFiles, settled, clock, idGen, dirGen, fsDirs, r2, ppt_files, ppt_previews,
                 pc, loc, stream, resp, calls>>

\* Lines 209-231: the two puts of a page, issued together, then the event.
TaskPuts(r, k) ==
  /\ tasks[r][k] = "puts"
  /\ puts' = [puts EXCEPT ![r] = @ \o <<StreamPreviewKey(r, k), StreamThumbnailKey(r, k)>>]
  /\ \E okPreview \in BOOLEAN, okThumbnail \in BOOLEAN :
       LET s1 == IF okPreview
                   THEN PutObject(r2, StreamPreviewKey(r, k), [by |-> r, data |-> "preview"])
                   ELSE r2
           s2 == IF okThumbnail
                   THEN PutObject(s1, StreamThumbnailKey(r, k), [by |-> r, data |-> "thumbnail"])
                   ELSE s1
       IN /\ r2' = s2
          /\ IF okPreview /\ okThumbnail /\ stream[r].state = "readable"
               THEN /\ stream' = [stream EXCEPT ![r] = SendEvent(@, Event("info"))]
                    /\ tasks' = [tasks EXCEPT ![r][k] = "done"]
                    /\ settled' = [settled EXCEPT ![r] = Append(@, k)]
               ELSE /\ tasks' = [tasks EXCEPT ![r][k] = "failed"]
                    /\ UNCHANGED <<stream, settled>>
  /\ UNCHANGED <<env, browser, proc, tmpFiles, clock, idGen, dirGen, fsDirs, ppt_files, ppt_previews,
                 pc, loc, resp, calls>>

\* Promise.all gathers the settled values in completion order: a mutant of
\* JoinRecords.
JoinRecordsInCompletionOrder(r) ==
  [i \in 1..Len(settled[r]) |-> StreamPreviewRecord(r, settled[r][i])]

\* Line 234: Promise.all resolves to the tasks' values in the order of the
\* tasks, whatever the order they were fulfilled in.
JoinRecords(r) == [k \in 1..Len(tasks[r]) |-> StreamPreviewRecord(r, k)]

\* Line 234-240: Promise.all over the tasks: rejects with the first task that
\* fails, resolves to the records in page order when all are done.
StreamJoin(r) ==
  /\ pc[r] = "s_join"
  /\ IF \E k \in 1..Len(tasks[r]) : tasks[r][k] = "failed"
       THEN StreamThrow(r, loc[r], "upload failed")
       ELSE /\ \A k \in 1..Len(tasks[r]) : tasks[r][k] = "done"
            /\ LET recs == JoinRecords(r)
                   l == [loc[r] EXCEPT
                           !.previewRecords = recs,
                           !.thumbnailKey =
                              IF Len(recs) > 0 THEN recs[1].thumbnail_url ELSE NoKey]
               IN StreamGoOn(r, <<Event("info"), Event("processing")>>,
                             [loc[r] EXCEPT !.previewRecords = recs], l, "s_file")
  /\ UNCHANGED <<env, browser, proc, puts, tmpFiles, settled, clock, idGen, dirGen, fsDirs, r2, ppt_files, ppt_previews,
                 resp, tasks, calls>>

\* The row the streamed route inserts into ppt_files (lines 259-273).
StreamFileRow(r) ==
  [id |-> loc[r].pptId, title |-> req[r].title, slug |-> loc[r].slug,
   category |-> req[r].category, file_name |-> req[r].name,
   file_size |-> req[r].size, file_type |-> ExtName(req[r].name),
   page_count |-> Len(loc[r].previewRecords),
   r2_file_key |-> loc[r].originalFileKey,
   r2_thumbnail_key |-> loc[r].thumbnailKey]

\* Lines 259-274: insert the file row.
StreamInsertFile(r) ==
  /\ pc[r] = "s_file"
  /\ \E ok \in BOOLEAN :
       IF ok
         THEN /\ ppt_files' = ppt_files \cup {StreamFileRow(r)}
              /\ loc' = [loc EXCEPT ![r].inserted = TRUE]
              /\ pc' = [pc EXCEPT ![r] = "s_previews"]
              /\ UNCHANGED stream
         ELSE /\ StreamThrow(r, loc[r], "ppt_files insert failed")
              /\ UNCHANGED ppt_files
  /\ UNCHANGED <<env, browser, proc, puts, tmpFiles, settled, clock, idGen, dirGen, fsDirs, r2, ppt_previews, resp, tasks, calls>>

\* Lines 279-284: insert the preview rows as one batch, then the done event.
StreamInsertPreviews(r) ==
  /\ pc[r] = "s_previews"
  /\ \E ok \in BOOLEAN :
       IF ok
         THEN /\ ppt_previews' = ppt_previews \cup SeqToSet(loc[r].previewRecords)
              /\ StreamGoOn(r, <<Event("info"), DoneEvent(loc[r].slug)>>,
                            loc[r], loc[r], "s_finally")
         ELSE /\ StreamThrow(r, loc[r], "ppt_previews insert failed")
              /\ UNCHANGED ppt_previews
  /\ UNCHANGED <<env, browser, proc, puts, tmpFiles, settled, clock, idGen, dirGen, fsDirs, r2, ppt_files, resp, tasks, calls>>

\* Mutant of StreamFinally: close() comes first in the finally, so its
\* exception on a detached stream skips the removal of the workspace.
StreamFinallyCloseFirst(r) ==
  /\ pc[r] = "s_finally"
  /\ fsDirs' = IF stream[r].state = "readable"
                 THEN RmTempDir(fsDirs, loc[r].tempDir) ELSE fsDirs
  /\ stream' = [stream EXCEPT ![r] =
                  IF loc[r].error # Null \/ @.state # "readable"
                    THEN StreamCallbackCatch(Close(@))
                    ELSE Close(@)]
  /\ pc' = [pc EXCEPT ![r] = "done"]
  /\ UNCHANGED <<env, browser, proc, puts, tmpFiles, settled, clock, idGen, dirGen, r2, ppt_files, ppt_previews, loc,
                 resp, tasks, calls>>

\* Lines 290-299 and 54-60: the finally removes the workspace and closes the
\* stream; an exception of the try, or of close(), then reaches the catch of
\* createStreamResponse.
StreamFinally(r) ==
  /\ pc[r] = "s_finally"
  /\ fsDirs' = RmTempDir(fsDirs, loc[r].tempDir)
  /\ stream' = [stream EXCEPT ![r] =
                  IF loc[r].error # Null \/ @.state # "readable"
                    THEN StreamCallbackCatch(Close(@))
                    ELSE Close(@)]
  /\ pc' = [pc EXCEPT ![r] = "done"]
  /\ UNCHANGED <<env, browser, proc, puts, tmpFiles, settled, clock, idGen, dirGen, r2, ppt_files, ppt_previews, loc,
                 resp, tasks, calls>>

Streamed(r) ==
  \/ StreamValidate(r)
  \/ ClientAbort(r)
  \/ StreamMkdtemp(r)
  \/ StreamStage(r)
  \/ StreamSpawn(r)
  \/ StreamConvert(r)
  \/ StreamPutOriginal(r)
  \/ \E k \in 1..Len(tasks[r]) : TaskRead(r, k)
  \/ \E k \in 1..Len(tasks[r]) : TaskPuts(r, k)
  \/ StreamJoin(r)
  \/ StreamInsertFile(r)
  \/ StreamInsertPreviews(r)
  \/ StreamFinally(r)

\* ------------------------------------------------- process-ppt route
\* What getAiMetadata can return: JSON.parse of the model's message content.
Metadatas ==
  {[title |-> "Q3 Review", slug |-> "q3-review", category |-> "Business & Corporate"],
   [title |-> "Budget", slug |-> "budget", category |-> "Finance & Investment"]}

\* How getAiMetadata fails (lines 451-470): fetch rejects, response not ok,
\* no message content, content that JSON.parse rejects.
ClassifierFailures == {"fetch failed", "not ok", "no content", "bad json"}

\* Mutant of BelowMinPages: the gate one page too low.
BelowMinPagesOffByOne(pageCount) == pageCount < MinPageCount - 1

\* Line 523: `if (pageCount < 10)`.
BelowMinPages(pageCount) == pageCount < MinPageCount

\* Mutant of AiCatch: the catch answers, no finally removes the workspace.
AiCatchNoFinally(r, l, details) ==
  /\ Respond(r, [status |-> 500, body |-> "error", error |-> "Processing failed",
                 details |-> details])
  /\ loc' = [loc EXCEPT ![r] = [l EXCEPT !.error = details]]
  /\ UNCHANGED fsDirs

\* Lines 666-679: the catch answers 500 { error, details }, the finally removes
\* the workspace.
AiCatch(r, l, details) ==
  /\ Respond(r, [status |-> 500, body |-> "error", error |-> "Processing failed",
                 details |-> details])
  /\ loc' = [loc EXCEPT ![r] = [l EXCEPT !.error = details]]
  /\ fsDirs' = RmTempDir(fsDirs, l.tempDir)

\* A step of the try is over without a response.
AiGoOn(r, l, to) ==
  /\ loc' = [loc EXCEPT ![r] = l]
  /\ pc' = [pc EXCEPT ![r] = to]
  /\ UNCHANGED <<resp, fsDirs>>

\* Lines 480-494: the file and its size.
AiValidate(r) ==
  /\ pc[r] = "start" /\ req[r].pipeline = "ai"
  /\ IF ~req[r].hasFile
       THEN Respond(r, [status |-> 400, body |-> "invalid", error |-> "No file provided"])
     ELSE IF req[r].size > MaxSize
       THEN Respond(r, [status |-> 413, body |-> "invalid", error |-> "File too large"])
     ELSE /\ pc' = [pc EXCEPT ![r] = "a_mkdtemp"]
          /\ UNCHANGED resp
  /\ UNCHANGED <<env, browser, proc, puts, tmpFiles, settled, clock, idGen, dirGen, fsDirs, r2, ppt_files, ppt_previews,
                 loc, stream, tasks, calls>>

\* Line 500: fs.mkdtemp.
AiMkdtemp(r) ==
  /\ pc[r] = "a_mkdtemp"
  /\ \E ok \in BOOLEAN :
       IF ok
         THEN /\ dirGen' = dirGen + 1
              /\ fsDirs' = fsDirs \cup {dirGen + 1}
              /\ loc' = [loc EXCEPT ![r].tempDir = dirGen + 1]
              /\ pc' = [pc EXCEPT ![r] = "a_stage"]
              /\ UNCHANGED resp
         ELSE /\ AiCatch(r, loc[r], "mkdtemp")
              /\ UNCHANGED dirGen
  /\ UNCHANGED <<env, browser, proc, puts, tmpFiles, settled, clock, idGen, r2, ppt_files, ppt_previews, stream, tasks, calls>>

\* Line 511: write the uploaded file into the workspace.
AiStage(r) ==
  /\ pc[r] = "a_stage"
  /\ \E ok \in BOOLEAN :
       IF ok THEN AiGoOn(r, loc[r], "a_convert") ELSE AiCatch(r, loc[r], "writeFile")
  /\ UNCHANGED <<env, browser, proc, puts, tmpFiles, settled, clock, idGen, dirGen, r2, ppt_files, ppt_previews, stream,
                 tasks, calls>>

\* Lines 515-517 and 378: mkdir previews, spawn convert.py.
AiSpawn(r) ==
  /\ pc[r] = "a_convert"
  /\ proc' = [proc EXCEPT ![r] = "running"]
  /\ calls' = [calls EXCEPT ![r] = @ \cup {"convert"}]
  /\ pc' = [pc EXCEPT ![r] = "a_wait"]
  /\ UNCHANGED <<env, browser, puts, tmpFiles, settled, clock, idGen, dirGen, fsDirs, r2, ppt_files,
                 ppt_previews, loc, stream, resp, tasks>>

\* Lines 517-535: the stdout of runPythonScript('convert.py'), JSON.parse of
\* the whole trimmed stdout, the page count and the page-count gate.
AiConvert(r) ==
  /\ pc[r] = "a_wait"
  /\ \E out \in convOutputs.ai :
       LET parsed == ParseWhole(out.stdout)
           j == parsed.v
           l0 == [loc[r] EXCEPT !.convOut = out]
           l == [l0 EXCEPT !.pageCount = j.page_count,
                           !.previews = j.previews,
                           !.thumbnails = j.thumbnails]
       IN /\ Settles(r, out)
          /\ IF out.code = -1 THEN AiCatch(r, l0, "spawn")
             ELSE IF out.code # 0 THEN AiCatch(r, l0, "convert.py failed with code")
             ELSE IF ~parsed.ok THEN AiCatch(r, l0, "SyntaxError")
             ELSE IF BelowMinPages(j.page_count) THEN AiGoOn(r, l, "a_skip")
             ELSE IF ~j.hasPreviews \/ Len(j.previews) = 0
               THEN AiCatch(r, l, "convert.py did not return any preview paths.")
             ELSE AiGoOn(r, l, "a_extract")
  /\ UNCHANGED <<env, browser, proc, puts, tmpFiles, settled, clock, idGen, dirGen, r2, ppt_files,
                 ppt_previews, stream, tasks, calls>>

\* Lines 523-531: fewer than 10 pages: remove the workspace, answer skipped.
AiSkip(r) ==
  /\ pc[r] = "a_skip"
  /\ fsDirs' = RmTempDir(fsDirs, loc[r].tempDir)
  /\ Respond(r, [status |-> 200, body |-> "skipped", skipped |-> TRUE,
                 reason |-> loc[r].pageCount, fileName |-> req[r].name])
  /\ UNCHANGED <<env, browser, proc, puts, tmpFiles, settled, clock, idGen, dirGen, r2, ppt_files, ppt_previews, loc,
                 stream, tasks, calls>>

\* Line 538: runPythonScript('extract_text.py').
AiExtract(r) ==
  /\ pc[r] = "a_extract"
  /\ calls' = [calls EXCEPT ![r] = @ \cup {"extract"}]
  /\ \E ok \in BOOLEAN :
       IF ok THEN AiGoOn(r, loc[r], "a_classify")
       ELSE AiCatch(r, loc[r], "extract_text.py failed with code")
  /\ UNCHANGED <<env, browser, proc, puts, tmpFiles, settled, clock, idGen, dirGen, r2, ppt_files, ppt_previews, stream, tasks>>

\* Mutant of AiClassify: a classifier failure is logged and the request goes
\* on with placeholder metadata.
AiClassifyFallback(r) ==
  /\ pc[r] = "a_classify"
  /\ calls' = [calls EXCEPT ![r] = @ \cup {"classify"}]
  /\ \/ \E m \in Metadatas :
          AiGoOn(r, [loc[r] EXCEPT !.metadata = m,
                                   !.slug = UniqueSlug(m.slug, clock)], "a_file")
     \/ \E f \in ClassifierFailures :
          AiGoOn(r, [loc[r] EXCEPT !.error = f,
                                   !.slug = UniqueSlug("untitled", clock)], "a_file")
  /\ UNCHANGED <<env, browser, proc, puts, tmpFiles, settled, clock, idGen, dirGen, r2, ppt_files, ppt_previews, stream, tasks>>

\* Lines 542-545: getAiMetadata, then the slug.
AiClassify(r) ==
  /\ pc[r] = "a_classify"
  /\ calls' = [calls EXCEPT ![r] = @ \cup {"classify"}]
  /\ \/ \E m \in Metadatas :
          AiGoOn(r, [loc[r] EXCEPT !.metadata = m,
                                   !.slug = UniqueSlug(m.slug, clock)], "a_file")
     \/ \E f \in ClassifierFailures : AiCatch(r, loc[r], f)
  /\ UNCHANGED <<env, browser, proc, puts, tmpFiles, settled, clock, idGen, dirGen, r2, ppt_files, ppt_previews, stream, tasks>>

\* Mutant of AiFileRow: the row is inserted with its original key already set.
AiFileRowWithKey(r, id) ==
  [id |-> id, title |-> loc[r].metadata.title, slug |-> loc[r].slug,
   category |-> loc[r].metadata.category, file_name |-> req[r].name,
   file_size |-> req[r].size, file_type |-> ExtName(req[r].name),
   page_count |-> loc[r].pageCount, r2_file_key |-> OriginalKey(id, req[r].name),
   r2_thumbnail_key |-> NoKey]

\* The row process-ppt inserts into ppt_files (lines 550-561).
AiFileRow(r, id) ==
  [id |-> id, title |-> loc[r].metadata.title, slug |-> loc[r].slug,
   category |-> loc[r].metadata.category, file_name |-> req[r].name,
   file_size |-> req[r].size, file_type |-> ExtName(req[r].name),
   page_count |-> loc[r].pageCount, r2_file_key |-> NoKey,
   r2_thumbnail_key |-> NoKey]

\* Lines 548-566: insert the file row; the table generates the id.
AiInsertFile(r) ==
  /\ pc[r] = "a_file"
  /\ \E ok \in BOOLEAN :
       IF ok
         THEN /\ idGen' = idGen + 1
              /\ ppt_files' = ppt_files \cup {AiFileRow(r, <<"uuid", idGen + 1>>)}
              /\ AiGoOn(r, [loc[r] EXCEPT !.pptId = <<"uuid", idGen + 1>>,
                                         !.inserted = TRUE], "a_original")
         ELSE /\ AiCatch(r, loc[r], "insertError")
              /\ UNCHANGED <<idGen, ppt_files>>
  /\ UNCHANGED <<env, browser, proc, puts, tmpFiles, settled, clock, dirGen, r2, ppt_previews, stream, tasks, calls>>

\* uploadToR2 inside the try: the put, then on, or the catch.
AiUpload(r, key, data, l, to) ==
  /\ puts' = [puts EXCEPT ![r] = Append(@, key)]
  /\ \E ok \in BOOLEAN :
       IF ok
         THEN /\ r2' = PutObject(r2, key, [by |-> r, data |-> data])
              /\ AiGoOn(r, l, to)
         ELSE /\ AiCatch(r, loc[r], "put failed")
              /\ UNCHANGED r2

\* Lines 570-576: put the original.
AiPutOriginal(r) ==
  /\ pc[r] = "a_original"
  /\ LET key == OriginalKey(loc[r].pptId, req[r].name)
     IN AiUpload(r, key, "original", [loc[r] EXCEPT !.originalFileKey = key], "a_thumbnail")
  /\ UNCHANGED <<env, browser, proc, tmpFiles, settled, clock, idGen, dirGen, ppt_files, ppt_previews, stream, tasks, calls>>

\* Lines 580-588: the thumbnail of the first preview, thumbnail.webp.
AiPutThumbnail(r) ==
  /\ pc[r] = "a_thumbnail"
  /\ LET key == PreviewsKey(loc[r].pptId, <<"thumbnail", "webp">>, 0)
     IN AiUpload(r, key, "thumbnail",
                 [loc[r] EXCEPT !.thumbnailKey = key, !.i = 0], "a_loop")
  /\ UNCHANGED <<env, browser, proc, tmpFiles, settled, clock, idGen, dirGen, ppt_files, ppt_previews, stream, tasks, calls>>

AiPreviewKey(r, n) == PreviewsKey(loc[r].pptId, <<"page", "webp">>, n)
AiPageThumbnailKey(r, n) == PreviewsKey(loc[r].pptId, <<"page", "thumb", "webp">>, n)

\* Lines 595-608: page i+1: put the preview as page-<i+1>.webp.
AiPutPagePreview(r) ==
  /\ pc[r] = "a_loop" /\ loc[r].i < Len(loc[r].previews)
  /\ AiUpload(r, AiPreviewKey(r, loc[r].i + 1), "preview", loc[r], "a_page_thumb")
  /\ UNCHANGED <<env, browser, proc, tmpFiles, settled, clock, idGen, dirGen, ppt_files, ppt_previews, stream, tasks, calls>>

\* Lines 611-628: page i+1: put the thumbnail as page-<i+1>-thumb.webp and push
\* the record; fs.readFile(undefined) throws past the end of thumbnails.
AiPutPageThumbnail(r) ==
  /\ pc[r] = "a_page_thumb"
  /\ LET n == loc[r].i + 1
         rec == [ppt_id |-> loc[r].pptId, page_number |-> n,
                 preview_url |-> AiPreviewKey(r, n),
                 thumbnail_url |-> AiPageThumbnailKey(r, n)]
     IN IF n > Len(loc[r].thumbnails)
          THEN /\ AiCatch(r, loc[r], "TypeError")
               /\ UNCHANGED <<r2, puts>>
          ELSE AiUpload(r, AiPageThumbnailKey(r, n), "thumbnail",
                        [loc[r] EXCEPT !.previewRecords = Append(@, rec), !.i = n],
                        "a_loop")
  /\ UNCHANGED <<env, browser, proc, tmpFiles, settled, clock, idGen, dirGen, ppt_files, ppt_previews, stream, tasks, calls>>

\* Lines 631-636: insert the preview rows as one batch.
AiInsertPreviews(r) ==
  /\ pc[r] = "a_loop" /\ loc[r].i >= Len(loc[r].previews)
  /\ \E ok \in BOOLEAN :
       IF ok
         THEN /\ ppt_previews' = ppt_previews \cup SeqToSet(loc[r].previewRecords)
              /\ AiGoOn(r, loc[r], "a_update")
         ELSE /\ AiCatch(r, loc[r], "previewInsertError")
              /\ UNCHANGED ppt_previews
  /\ UNCHANGED <<env, browser, proc, puts, tmpFiles, settled, clock, idGen, dirGen, r2, ppt_files, stream, tasks, calls>>

\* Lines 641-648: update the file row with the keys; the result is not read.
AiUpdate(r) ==
  /\ pc[r] = "a_update"
  /\ \E ok \in BOOLEAN :
       ppt_files' =
         IF ok
           THEN {IF f.id = loc[r].pptId
                   THEN [f EXCEPT !.r2_file_key = loc[r].originalFileKey,
                                  !.r2_thumbnail_key = loc[r].thumbnailKey]
                   ELSE f : f \in ppt_files}
           ELSE ppt_files
  /\ AiGoOn(r, loc[r], "a_success")
  /\ UNCHANGED <<env, browser, proc, puts, tmpFiles, settled, clock, idGen, dirGen, r2, ppt_previews, stream, tasks, calls>>

\* Lines 653-664: remove the workspace, answer with the ids and keys.
AiSuccess(r) ==
  /\ pc[r] = "a_success"
  /\ fsDirs' = RmTempDir(fsDirs, loc[r].tempDir)
  /\ Respond(r, [status |-> 200, body |-> "success", pptId |-> loc[r].pptId,
                 r2_original_key |-> loc[r].originalFileKey,
                 r2_thumbnail_key |-> loc[r].thumbnailKey])
  /\ UNCHANGED <<env, browser, proc, puts, tmpFiles, settled, clock, idGen, dirGen, r2, ppt_files, ppt_previews, loc,
                 stream, tasks, calls>>

Ai(r) ==
  \/ AiValidate(r)
  \/ AiMkdtemp(r)
  \/ AiStage(r)
  \/ AiSpawn(r)
  \/ AiConvert(r)
  \/ AiSkip(r)
  \/ AiExtract(r)
  \/ AiClassify(r)
  \/ AiInsertFile(r)
  \/ AiPutOriginal(r)
  \/ AiPutThumbnail(r)
  \/ AiPutPagePreview(r)
  \/ AiPutPageThumbnail(r)
  \/ AiInsertPreviews(r)
  \/ AiUpdate(r)
  \/ AiSuccess(r)

Next ==
  \/ Tick
  \/ \E r \in Reqs : ConverterStep(r)
  \/ \E r \in Reqs : Direct(r) \/ Streamed(r) \/ Ai(r)

Spec == Init /\ [][Next]_vars

SpecTwo == InitTwo /\ [][Next]_vars

\* ------------------------------------------- classify-text endpoint
\* The outer catch of both text endpoints: 500 { error, details }.
TextCatch(r, details) ==
  Respond(r, [status |-> 500, body |-> "error", error |-> "Internal server error.",
              details |-> details])

\* Mutant of ValidBody: only the text is checked.
ValidBodyTextOnly(b) == Truthy(b.text) /\ b.text.type = "string"

\* summarize-text line 44: text and filename are non-empty strings.
ValidBody(b) ==
  /\ Truthy(b.text) /\ b.text.type = "string"
  /\ Truthy(b.filename) /\ b.filename.type = "string"

\* summarize-text lines 42-54: req.json(), the check of the body, the API key.
ClassifyValidate(r) ==
  /\ pc[r] = "start" /\ req[r].pipeline = "classify"
  /\ IF req[r].body.kind = "malformed"
       THEN TextCatch(r, "SyntaxError")
     ELSE IF ~ValidBody(req[r].body)
       THEN Respond(r, [status |-> 400, body |-> "invalid",
                        error |-> "Text and filename are required in the request body",
                        details |-> Null])
     ELSE IF ~req[r].apiKey
       THEN Respond(r, [status |-> 500, body |-> "error",
                        error |-> "DOUBAO_API_KEY environment variable not set.",
                        details |-> Null])
     ELSE /\ pc' = [pc EXCEPT ![r] = "c_fetch"]
          /\ UNCHANGED resp
  /\ UNCHANGED <<env, browser, proc, puts, tmpFiles, settled, clock, idGen, dirGen, fsDirs, r2, ppt_files,
                 ppt_previews, loc, stream, tasks, calls>>

\* summarize-text lines 69-90: the fetch rejects, or resolves to a reply.
ClassifyFetch(r) ==
  /\ pc[r] = "c_fetch"
  /\ calls' = [calls EXCEPT ![r] = @ \cup {"remote"}]
  /\ \/ /\ TextCatch(r, "fetch failed")
        /\ UNCHANGED loc
     \/ \E reply \in Replies :
          /\ loc' = [loc EXCEPT ![r].reply = reply]
          /\ pc' = [pc EXCEPT ![r] = "c_reply"]
          /\ UNCHANGED resp
  /\ UNCHANGED <<env, browser, proc, puts, tmpFiles, settled, clock, idGen, dirGen, fsDirs, r2, ppt_files,
                 ppt_previews, stream, tasks>>

\* summarize-text lines 92-113: read the reply's body and answer.
ClassifyReply(r) ==
  /\ pc[r] = "c_reply"
  /\ LET reply == loc[r].reply
         parsed == JsonParse(reply.content)
     IN IF ~reply.ok
          THEN Respond(r, [status |-> reply.status, body |-> "error",
                           error |-> "Failed to get a response from Doubao API.",
                           details |-> reply.text])
        ELSE IF ~reply.json
          THEN TextCatch(r, "SyntaxError")
        ELSE IF ~HasContent(reply.content)
          THEN Respond(r, [status |-> 500, body |-> "error",
                           error |-> "Could not parse content from Doubao API response.",
                           details |-> Null])
        ELSE IF ~parsed.ok
          THEN Respond(r, [status |-> 500, body |-> "error",
                           error |-> "Model did not return valid JSON.",
                           details |-> reply.content])
        ELSE Respond(r, [status |-> 200, body |-> "classification",
                         value |-> parsed.v, details |-> Null])
  /\ UNCHANGED <<env, browser, proc, puts, tmpFiles, settled, clock, idGen, dirGen, fsDirs, r2, ppt_files,
                 ppt_previews, loc, stream, tasks, calls>>

Classify(r) ==
  \/ ClassifyValidate(r)
  \/ ClassifyFetch(r)
  \/ ClassifyReply(r)

\* -------------------------------------------- extract-text endpoint
\* file.name.endsWith('.pptx'); a name is its '.'-separated parts.
EndsWithPptx(name) == Len(name) > 1 /\ name[Len(name)] = "pptx"

\* part_001 lines 29-41: the file and the check of its type.
ExtractValidate(r) ==
  /\ pc[r] = "start" /\ req[r].pipeline = "extract"
  /\ IF ~req[r].hasFile
       THEN Respond(r, [status |-> 400, body |-> "invalid", error |-> "No file provided",
                        details |-> Null])
     ELSE IF ~EndsWithPptx(req[r].name) /\ req[r].type # PptxMime
       THEN Respond(r, [status |-> 400, body |-> "invalid",
                        error |-> "Invalid file type. Please upload a .pptx file.",
                        details |-> Null])
     ELSE /\ pc' = [pc EXCEPT ![r] = "e_write"]
          /\ UNCHANGED resp
  /\ UNCHANGED <<env, browser, proc, puts, tmpFiles, settled, clock, idGen, dirGen, fsDirs, r2, ppt_files,
                 ppt_previews, loc, stream, tasks, calls>>

\* part_001 lines 43-46: `${Date.now()}-${file.name}` in os.tmpdir(), writeFile.
ExtractWrite(r) ==
  /\ pc[r] = "e_write"
  /\ \E ok \in BOOLEAN :
       IF ok
         THEN /\ tmpFiles' = tmpFiles \cup {<<clock, req[r].name>>}
              /\ loc' = [loc EXCEPT ![r].tempFilePath = <<clock, req[r].name>>]
              /\ pc' = [pc EXCEPT ![r] = "e_run"]
              /\ UNCHANGED resp
         ELSE /\ TextCatch(r, "writeFile")
              /\ UNCHANGED <<tmpFiles, loc>>
  /\ UNCHANGED <<env, browser, proc, puts, settled, clock, idGen, dirGen, fsDirs, r2, ppt_files,
                 ppt_previews, stream, tasks, calls>>

\* part_001 line 49: spawn extract_text.py; the child starts or fails to
\* start.
ExtractRun(r) ==
  /\ pc[r] = "e_run"
  /\ calls' = [calls EXCEPT ![r] = @ \cup {"extract"}]
  /\ \E out \in {o \in ExtractExits : o.code = -1} \cup {NoExit} :
       loc' = [loc EXCEPT ![r].pythonProcess =
                 [will |-> out, stdout |-> "open", stderr |-> "open", exited |-> FALSE,
                  emitted |-> "none", lost |-> FALSE]]
  /\ pc' = [pc EXCEPT ![r] = "e_stdout"]
  /\ UNCHANGED <<env, browser, proc, puts, tmpFiles, settled, clock, idGen, dirGen, fsDirs, r2, ppt_files,
                 ppt_previews, stream, resp, tasks>>

\* The child's side of lines 49-68: a started child ends its stdout, ends its
\* stderr and exits, in any order; the pipes of a child that failed to start
\* end once its 'error' event has been emitted.
ChildEnds(r) ==
  LET c == loc[r].pythonProcess IN
  /\ req[r].pipeline = "extract"
  /\ pc[r] \in {"e_stdout", "e_stderr", "e_wait"}
  /\ c.will.code # -1 \/ c.emitted = "error"
  /\ \/ c.stdout = "open" /\ loc' = [loc EXCEPT ![r].pythonProcess.stdout = "ended"]
     \/ c.stderr = "open" /\ loc' = [loc EXCEPT ![r].pythonProcess.stderr = "ended"]
     \/ /\ c.stdout # "none" /\ c.will.code # -1 /\ ~c.exited
        /\ \E out \in {o \in ExtractExits : o.code >= 0} :
             loc' = [loc EXCEPT ![r].pythonProcess.exited = TRUE,
                                ![r].pythonProcess.will = out]
  /\ UNCHANGED <<env, browser, proc, puts, tmpFiles, settled, clock, idGen, dirGen, fsDirs, r2, ppt_files,
                 ppt_previews, pc, stream, resp, tasks, calls>>

\* The listeners of line 66 and line 67 are registered: the handler is at the
\* await of line 65.
Listening(r) == pc[r] = "e_wait"

\* The child emits 'error' (it could not be started) or 'close' (it has
\* exited and both pipes have ended).  An event emitter calls the listeners
\* registered at that moment: with the listeners of lines 66-67 registered the
\* promise settles, otherwise the event is gone.
ChildEmits(r) ==
  LET c  == loc[r].pythonProcess
      ev == IF c.will.code = -1 THEN "error" ELSE "close"
  IN
  /\ req[r].pipeline = "extract"
  /\ pc[r] \in {"e_stdout", "e_stderr", "e_wait"}
  /\ c.emitted = "none"
  /\ c.will.code = -1 \/ (c.exited /\ c.stdout = "ended" /\ c.stderr = "ended")
  /\ IF Listening(r)
       THEN IF ev = "error"
              THEN /\ TextCatch(r, c.will.stderr)
                   /\ loc' = [loc EXCEPT ![r].pythonProcess.emitted = ev,
                                         ![r].exitCode = c.will]
              ELSE /\ loc' = [loc EXCEPT ![r].pythonProcess.emitted = ev,
                                         ![r].exitCode = c.will]
                   /\ pc' = [pc EXCEPT ![r] = "e_unlink"]
                   /\ UNCHANGED resp
       ELSE /\ loc' = [loc EXCEPT ![r].pythonProcess.emitted = ev,
                                  ![r].pythonProcess.lost = TRUE]
            /\ UNCHANGED <<pc, resp>>
  /\ UNCHANGED <<env, browser, proc, puts, tmpFiles, settled, clock, idGen, dirGen, fsDirs, r2, ppt_files,
                 ppt_previews, stream, tasks, calls>>

\* part_001 lines 55-57: `for await` over stdout ends when stdout has ended;
\* a read that throws goes to the catch.
ExtractDrainStdout(r) ==
  /\ pc[r] = "e_stdout" /\ loc[r].pythonProcess.stdout = "ended"
  /\ \/ \E out \in {o \in ExtractExits : o.code = -3} :
          /\ TextCatch(r, out.stderr)
          /\ loc' = [loc EXCEPT ![r].exitCode = out]
     \/ /\ pc' = [pc EXCEPT ![r] = "e_stderr"]
        /\ UNCHANGED <<resp, loc>>
  /\ UNCHANGED <<env, browser, proc, puts, tmpFiles, settled, clock, idGen, dirGen, fsDirs, r2, ppt_files,
                 ppt_previews, stream, tasks, calls>>

\* part_001 lines 60-68: `for await` over stderr ends when stderr has ended;
\* the handler then registers its 'close' and 'error' listeners and waits.
ExtractDrainStderr(r) ==
  /\ pc[r] = "e_stderr" /\ loc[r].pythonProcess.stderr = "ended"
  /\ pc' = [pc EXCEPT ![r] = "e_wait"]
  /\ UNCHANGED <<env, browser, proc, puts, tmpFiles, settled, clock, idGen, dirGen, fsDirs, r2, ppt_files,
                 ppt_previews, loc, stream, resp, tasks, calls>>

\* part_001 lines 71-85: unlink the temporary file, then answer by exit code.
ExtractUnlink(r) ==
  /\ pc[r] = "e_unlink"
  /\ \E ok \in BOOLEAN :
       IF ok /\ loc[r].tempFilePath \in tmpFiles
         THEN /\ tmpFiles' = tmpFiles \ {loc[r].tempFilePath}
              /\ IF loc[r].exitCode.code # 0
                   THEN Respond(r, [status |-> 500, body |-> "error",
                                    error |-> "Failed to extract text from PPTX.",
                                    details |-> loc[r].exitCode.stderr])
                   ELSE Respond(r, [status |-> 200, body |-> "text", details |-> Null])
         ELSE /\ TextCatch(r, "unlink")
              /\ UNCHANGED tmpFiles
  /\ UNCHANGED <<env, browser, proc, puts, settled, clock, idGen, dirGen, fsDirs, r2, ppt_files,
                 ppt_previews, loc, stream, tasks, calls>>

Extract(r) ==
  \/ ExtractValidate(r)
  \/ ExtractWrite(r)
  \/ ExtractRun(r)
  \/ ChildEnds(r)
  \/ ChildEmits(r)
  \/ ExtractDrainStdout(r)
  \/ ExtractDrainStderr(r)
  \/ ExtractUnlink(r)

\* Two concurrent requests to one of the text endpoints; two extract-text
\* requests carry the same file.
InitText ==
  /\ InitWith(Reqs, TextForms, AllOutputs)
  /\ req[1].pipeline = req[2].pipeline
  /\ req[1].pipeline = "extract" => req[2] = req[1]

NextText ==
  \/ Tick
  \/ \E r \in Reqs : Classify(r) \/ Extract(r)

SpecText == InitText /\ [][NextText]_vars

\* ------------------------------------------- batch-upload page (browser)
MaxDrop == 2
MaxQueue == 3

\* Files the user can drop; two files in different folders can have the same
\* name and the same lastModified.
DropFiles ==
  {[name |-> <<"a", "pptx">>, lastModified |-> 1],
   [name |-> <<"b", "ppt">>, lastModified |-> 1],
   [name |-> <<"notes", "txt">>, lastModified |-> 1]}

\* The acceptedFiles of one drop.
Drops == UNION {[1..n -> DropFiles] : n \in 1..MaxDrop}

\* Line 44: `${file.name}-${file.lastModified}`
FileId(f) == <<f.name, f.lastModified>>

\* Line 42: file.name.endsWith('.ppt') || file.name.endsWith('.pptx')
IsPpt(f) == Len(f.name) > 1 /\ f.name[Len(f.name)] \in {"ppt", "pptx"}

\* Lines 41-48: the queue entries of the accepted files.
NewFiles(acceptedFiles) ==
  LET kept == SelectSeq(acceptedFiles, IsPpt)
  IN [k \in 1..Len(kept) |-> [id |-> FileId(kept[k]), file |-> kept[k], status |-> "pending"]]

\* Lines 51-54: append the new entries whose id is not in the queue yet.
AppendNew(prev, newFiles) ==
  LET existingIds == {prev[k].id : k \in 1..Len(prev)}
      fresh(nf)   == nf.id \notin existingIds
  IN prev \o SelectSeq(newFiles, fresh)

\* Lines 40-56: onDrop.  The user cannot act in the middle of a turn of the
\* processing loop.
OnDrop ==
  /\ BatchUploadPage.at # "loop"
  /\ \E acceptedFiles \in Drops :
       /\ Len(BatchUploadPage.files) + Len(acceptedFiles) <= MaxQueue
       /\ BatchUploadPage' =
            [BatchUploadPage EXCEPT !.files = AppendNew(@, NewFiles(acceptedFiles))]
  /\ UNCHANGED <<server, TestUpload>>

\* prev.map(f => f.id === id ? { ...f, status } : f)
SetStatus(prev, id, status) ==
  [k \in 1..Len(prev) |-> IF prev[k].id = id THEN [prev[k] EXCEPT !.status = status] ELSE prev[k]]

IsPending(f) == f.status = "pending"

\* Lines 63-73, with the button's guard of line 141: snapshot the pending
\* files and enter the loop.
HandleStartProcessing ==
  /\ ~BatchUploadPage.isProcessing
  /\ \E k \in 1..Len(BatchUploadPage.files) : IsPending(BatchUploadPage.files[k])
  /\ BatchUploadPage' =
       [BatchUploadPage EXCEPT !.filesToProcess = SelectSeq(BatchUploadPage.files, IsPending),
                               !.isProcessing = TRUE, !.i = 0, !.at = "loop"]
  /\ UNCHANGED <<server, TestUpload>>

\* Lines 74-85 and 115-116: the next file is marked Processing and its
\* request sent, or, the list done, the run ends.
BatchNext ==
  LET B == BatchUploadPage IN
  /\ B.at = "loop"
  /\ IF B.i < Len(B.filesToProcess)
       THEN BatchUploadPage' =
              [B EXCEPT !.files = SetStatus(@, B.filesToProcess[B.i + 1].id, "processing"),
                        !.i = B.i + 1, !.at = "fetch"]
       ELSE BatchUploadPage' =
              [B EXCEPT !.isProcessing = FALSE, !.filesToProcess = <<>>, !.i = 0,
                        !.at = "idle"]
  /\ UNCHANGED <<server, TestUpload>>

\* What the request of one file comes to: it throws (fetch or response.json),
\* or a response arrives, ok or not, with or without `skipped`.
BatchResponses == [throws : BOOLEAN, ok : BOOLEAN, skipped : BOOLEAN]

\* Lines 87-111: the status the file gets.
StatusFor(res) ==
  IF res.throws \/ ~res.ok THEN "failed"
  ELSE IF res.skipped THEN "skipped"
  ELSE "completed"

\* Lines 87-111: the response of the current file is handled.
BatchSettle ==
  LET B == BatchUploadPage IN
  /\ B.at = "fetch"
  /\ \E res \in BatchResponses :
       BatchUploadPage' =
         [B EXCEPT !.files = SetStatus(@, B.filesToProcess[B.i].id, StatusFor(res)),
                   !.at = "loop"]
  /\ UNCHANGED <<server, TestUpload>>

\* Lines 119-121, with the button's guards of lines 135 and 140.
ClearList ==
  /\ ~BatchUploadPage.isProcessing
  /\ Len(BatchUploadPage.files) > 0
  /\ BatchUploadPage' = [BatchUploadPage EXCEPT !.files = <<>>]
  /\ UNCHANGED <<server, TestUpload>>

InitBatch == InitWith({}, TextForms, AllOutputs)

NextBatch ==
  \/ OnDrop
  \/ HandleStartProcessing
  \/ BatchNext
  \/ BatchSettle
  \/ ClearList

SpecBatch == InitBatch /\ [][NextBatch]_vars

\* ------------------------------------------- upload form TestUpload (browser)
\* The ZIP files the user can select and the image entries each holds.
Zips == {"two-pages.zip", "one-page.zip", "no-image.zip"}

ImageCount(z) ==
  IF z = "two-pages.zip" THEN 2 ELSE IF z = "one-page.zip" THEN 1 ELSE 0

\* Lines 189-192: the data URLs of the ZIP's image entries, in order.
ImageUrls(z) == [k \in 1..ImageCount(z) |-> [zip |-> z, n |-> k]]

\* Lines 200-219: the thumbnail drawn from each preview, in order.
ThumbnailUrls(images) == [k \in 1..Len(images) |-> [of |-> images[k]]]

\* Lines 167-183: a PPT/PPTX file is selected, or another file is refused.
HandleFileChange ==
  /\ \E valid \in BOOLEAN : TestUpload' = [TestUpload EXCEPT !.file = valid]
  /\ UNCHANGED <<server, BatchUploadPage>>

\* The title input's onChange: setTitle.
SetTitle ==
  /\ \E t \in {"", "Q3 Review"} : TestUpload' = [TestUpload EXCEPT !.title = t]
  /\ UNCHANGED <<server, BatchUploadPage>>

\* Lines 185-189: handleZipChange starts to load the selected ZIP.
HandleZipChange ==
  /\ \E z \in Zips : TestUpload' = [TestUpload EXCEPT !.loading = @ \cup {z}]
  /\ UNCHANGED <<server, BatchUploadPage>>

\* Lines 189-194 and 223-227: a ZIP has been read: setPreviewImages,
\* setZipFile; the effect on previewImages then starts generateThumbnails
\* over these images when there is at least one.
ZipLoaded ==
  /\ \E z \in TestUpload.loading :
       TestUpload' =
         [TestUpload EXCEPT !.loading = @ \ {z},
                            !.previewImages = ImageUrls(z),
                            !.zipFile = z,
                            !.generating = IF Len(ImageUrls(z)) > 0
                                             THEN @ \cup {ImageUrls(z)} ELSE @]
  /\ UNCHANGED <<server, BatchUploadPage>>

\* Lines 200-220: a run of generateThumbnails ends: setThumbnails with the
\* thumbnails of the images it was started over.
ThumbnailsGenerated ==
  /\ \E images \in TestUpload.generating :
       TestUpload' =
         [TestUpload EXCEPT !.generating = @ \ {images},
                            !.thumbnails = ThumbnailUrls(images)]
  /\ UNCHANGED <<server, BatchUploadPage>>

\* Lines 229-257, with the button's guard of line 426: the form data is built
\* from the current previewImages and thumbnails and sent.
HandleUpload ==
  /\ ~TestUpload.uploading /\ TestUpload.file
  /\ TestUpload.zipFile # "none" /\ TestUpload.title # ""
  /\ TestUpload' =
       [TestUpload EXCEPT !.uploading = TRUE,
                          !.sent = {[previews |-> TestUpload.previewImages,
                                     thumbnails |-> TestUpload.thumbnails]}]
  /\ UNCHANGED <<server, BatchUploadPage>>

\* Lines 259-277: the response: on success the form is reset.
UploadSettled ==
  /\ TestUpload.uploading
  /\ \E ok \in BOOLEAN :
       TestUpload' =
         IF ok
           THEN [TestUpload EXCEPT !.uploading = FALSE, !.file = FALSE,
                                   !.zipFile = "none", !.previewImages = <<>>,
                                   !.thumbnails = <<>>, !.title = ""]
           ELSE [TestUpload EXCEPT !.uploading = FALSE]
  /\ UNCHANGED <<server, BatchUploadPage>>

InitUpload == InitWith({}, TextForms, AllOutputs)

NextUpload ==
  \/ HandleFileChange
  \/ SetTitle
  \/ HandleZipChange
  \/ ZipLoaded
  \/ ThumbnailsGenerated
  \/ HandleUpload
  \/ UploadSettled

SpecUpload == InitUpload /\ [][NextUpload]_vars

\* ------------------------------------------------------------ claims
RowsOf(r) == {f \in ppt_files : f.id = loc[r].pptId}
PreviewRowsOf(r) == {p \in ppt_previews : p.ppt_id = loc[r].pptId}
BlobsOf(r) == {k \in DOMAIN r2 : r2[k].by = r}
Terminal(ev) == ev.status \in {"done", "error"}
ValidationErrors == {"no file", "too large", "title and category required"}

\* The request was turned down by a validation check.
Rejected(r) ==
  \/ resp[r].body = "invalid"
  \/ req[r].pipeline = "stream" /\ loc[r].error \in ValidationErrors

\* The request reported success: a success body, or a done event.
Succeeded(r) ==
  \/ resp[r].body = "success"
  \/ \E i \in 1..Len(stream[r].events) : stream[r].events[i].status = "done"

\* C1: in the streamed pipeline a closed stream holds exactly one terminal
\* event (done or error), that event is its last, and nothing is enqueued
\* after the close.
C1_OneTerminalEventThenClose ==
  [][\A r \in live : req[r].pipeline = "stream" =>
       /\ stream[r].state = "closed" => stream'[r] = stream[r]
       /\ stream'[r].state = "closed" =>
            LET ev == stream'[r].events
            IN /\ Len(ev) > 0
               /\ {i \in 1..Len(ev) : Terminal(ev[i])} = {Len(ev)}]_vars

\* C2: in the streamed and the AI-assisted pipelines the temporary directory
\* a request created is not on disk once the request has completed.
C2_WorkspaceRemoved ==
  \A r \in live :
    (req[r].pipeline \in {"stream", "ai"} /\ pc[r] = "done" /\ loc[r].tempDir # NoDir)
      => loc[r].tempDir \notin fsDirs

\* C2 witness: a request that failed after its file row was inserted has
\* completed and its directory is gone.
C2_Witness ==
  \E r \in live :
    /\ req[r].pipeline \in {"stream", "ai"} /\ pc[r] = "done"
    /\ loc[r].tempDir # NoDir /\ loc[r].tempDir \notin fsDirs
    /\ loc[r].inserted /\ loc[r].error # Null

\* C3: in the AI-assisted pipeline a file whose page count is below 10 gets
\* no file row, no preview row, no blob, no text extraction and no classifier
\* call; the request ends with the workspace removed and the answer
\* skipped: true, the reason with the page count, the file name, HTTP 200.
C3_SkipBelowMinPages ==
  \A r \in live :
    (req[r].pipeline = "ai" /\ loc[r].pageCount # -1 /\ loc[r].pageCount < MinPageCount)
      => /\ RowsOf(r) = {} /\ PreviewRowsOf(r) = {} /\ BlobsOf(r) = {}
         /\ ppt_files = {} /\ ppt_previews = {}
         /\ calls[r] \cap {"extract", "classify"} = {}
         /\ pc[r] = "done" =>
              /\ resp[r].status = 200 /\ resp[r].body = "skipped"
              /\ resp[r].skipped /\ resp[r].reason = loc[r].pageCount
              /\ resp[r].fileName = req[r].name
              /\ loc[r].tempDir \notin fsDirs

\* C3 witness: a 9-page file was answered skipped.
C3_Witness ==
  \E r \in live :
    /\ req[r].pipeline = "ai" /\ pc[r] = "done"
    /\ loc[r].pageCount = MinPageCount - 1 /\ resp[r].body = "skipped"

\* C4: for every upload that reports success the preview rows of the file
\* are as many as the page_count of its file row and their page numbers are
\* exactly 1..page_count.
C4_PreviewRowsMatchPageCount ==
  \A r \in live :
    Succeeded(r) /\ pc[r] = "done" =>
      /\ Cardinality(RowsOf(r)) = 1
      /\ \A f \in RowsOf(r) :
           /\ Cardinality(PreviewRowsOf(r)) = f.page_count
           /\ {p.page_number : p \in PreviewRowsOf(r)} = 1..f.page_count

\* C5: when a request is rejected by a validation check no blob has been
\* put, no row inserted and no workspace created.
C5_RejectionWithoutSideEffects ==
  \A r \in live :
    Rejected(r) =>
      /\ BlobsOf(r) = {} /\ RowsOf(r) = {} /\ PreviewRowsOf(r) = {}
      /\ loc[r].tempDir = NoDir

\* C6: a file whose extension is not ppt or pptx is rejected with a validation
\* error (HTTP 4xx where the answer is JSON) before a workspace is created,
\* the converter invoked or a blob or row written.
C6_BadExtensionRejected ==
  \A r \in live :
    (req[r].hasFile /\ FileType(req[r].name) \notin AllowedTypes) =>
      /\ loc[r].tempDir = NoDir /\ "convert" \notin calls[r]
      /\ BlobsOf(r) = {} /\ RowsOf(r) = {}
      /\ pc[r] = "done" =>
           /\ Rejected(r)
           /\ req[r].pipeline # "stream" => resp[r].status \in {400, 413}

\* C7: a file larger than 100 MiB gets no workspace, no converter run, no
\* blob and no row.
C7_OversizeRejected ==
  \A r \in live :
    (req[r].hasFile /\ req[r].size > MaxSize) =>
      /\ loc[r].tempDir = NoDir /\ "convert" \notin calls[r]
      /\ BlobsOf(r) = {} /\ RowsOf(r) = {}
      /\ pc[r] = "done" => Rejected(r)

\* C8: the direct and the streamed pipeline never insert a file row with an
\* empty title or an empty category.
C8_NoRowWithoutTitleOrCategory ==
  \A r \in live :
    req[r].pipeline \in {"direct", "stream"} =>
      \A f \in RowsOf(r) : f.title \notin {Null, ""} /\ f.category \notin {Null, ""}

\* C9: two uploads with the same title (streamed) or the same classifier slug
\* (AI-assisted) get two distinct slugs.
C9_DistinctSlugs ==
  \A a \in live, b \in live :
    ( /\ a # b /\ req[a].pipeline = req[b].pipeline
      /\ loc[a].slug # NoSlug /\ loc[b].slug # NoSlug
      /\ req[a].pipeline = "stream" => req[a].title = req[b].title
      /\ req[a].pipeline = "ai" => loc[a].metadata.slug = loc[b].metadata.slug )
    => loc[a].slug # loc[b].slug

\* The converter subprocess of the request exited with a non-zero code.
ConverterFailed(r) ==
  loc[r].error \in {"Python script exited with code", "convert.py failed with code"}

\* C10: when the converter exits non-zero the failure is surfaced (a terminal
\* error event to a client that is still attached, or { error, details } with
\* HTTP 500), the workspace is removed, and no row and no blob was written.
C10_ConverterFailureSurfaced ==
  \A r \in live :
    (ConverterFailed(r) /\ pc[r] = "done") =>
      /\ req[r].pipeline = "stream" /\ stream[r].state # "cancelled" =>
           /\ Len(stream[r].events) > 0
           /\ stream[r].events[Len(stream[r].events)].status = "error"
      /\ req[r].pipeline = "ai" => resp[r].status = 500 /\ resp[r].body = "error"
      /\ loc[r].tempDir \notin fsDirs
      /\ RowsOf(r) = {} /\ PreviewRowsOf(r) = {} /\ BlobsOf(r) = {}

\* Text extraction or classification of the request failed.
ExtractionOrClassificationFailed(r) ==
  loc[r].error \in ClassifierFailures \cup {"extract_text.py failed with code"}

\* C11: in the AI-assisted pipeline a failure of text extraction or of
\* classification leaves no file row and no blob of the request, and the
\* request ends with HTTP 500 and its workspace removed.
C11_ClassifierFailureAborts ==
  \A r \in live :
    (req[r].pipeline = "ai" /\ ExtractionOrClassificationFailed(r)) =>
      /\ ~loc[r].inserted /\ RowsOf(r) = {} /\ BlobsOf(r) = {}
      /\ pc[r] = "done" =>
           /\ resp[r].status = 500 /\ resp[r].body = "error"
           /\ loc[r].tempDir \notin fsDirs

\* C11 witness: the classifier's content was not parseable JSON and the
\* request was answered 500 with its workspace gone.
C11_Witness ==
  \E r \in live :
    /\ req[r].pipeline = "ai" /\ pc[r] = "done" /\ loc[r].error = "bad json"
    /\ resp[r].status = 500 /\ loc[r].tempDir # NoDir /\ loc[r].tempDir \notin fsDirs

\* C12: a request reports success only if its writes succeeded: a successful
\* AI-assisted upload has a file row with non-null original and thumbnail
\* keys, a successful direct upload has one preview row per page.
C12_SuccessOnlyIfWritesSucceeded ==
  \A r \in live :
    (Succeeded(r) /\ pc[r] = "done") =>
      /\ req[r].pipeline = "ai" =>
           /\ RowsOf(r) # {}
           /\ \A f \in RowsOf(r) : f.r2_file_key # NoKey /\ f.r2_thumbnail_key # NoKey
      /\ req[r].pipeline = "direct" =>
           Cardinality(PreviewRowsOf(r)) = Len(loc[r].previews)

\* The upload of a page preview or page thumbnail of the request failed.
PageAssetUploadFailed(r) ==
  \/ /\ req[r].pipeline = "direct" /\ loc[r].inserted
     /\ resp[r].body = "failed" /\ resp[r].error = "put failed"
  \/ req[r].pipeline = "stream" /\ loc[r].error = "upload failed"
  \/ /\ req[r].pipeline = "ai" /\ loc[r].error = "put failed"
     /\ loc[r].thumbnailKey # NoKey

\* C13: if the upload of any per-page asset failed, no preview row exists for
\* the file.
C13_NoPreviewRowAfterFailedUpload ==
  \A r \in live : PageAssetUploadFailed(r) => PreviewRowsOf(r) = {}

\* A key of the convention for file id: <id>/original/<name>, or
\* <id>/previews/page-<n>.<ext>, or <id>/previews/page-<n>-thumb.<ext>.
ConventionalKey(key, id, name) ==
  /\ key.id = id
  /\ \/ key.kind = "original" /\ key.file = name
     \/ /\ key.kind = "previews" /\ key.n >= 1
        /\ \/ Len(key.file) = 2 /\ key.file[1] = "page"
           \/ Len(key.file) = 3 /\ key.file[1] = "page" /\ key.file[2] = "thumb"

\* C14: every blob of a file is stored under a conventional key built from
\* the id of its file row, and a preview row's keys carry its page number.
C14_KeysFollowConvention ==
  \A r \in live :
    /\ \A f \in RowsOf(r) : \A k \in BlobsOf(r) : ConventionalKey(k, f.id, f.file_name)
    /\ \A p \in PreviewRowsOf(r) :
         /\ p.preview_url.id = p.ppt_id /\ p.preview_url.n = p.page_number
         /\ p.thumbnail_url.id = p.ppt_id /\ p.thumbnail_url.n = p.page_number

\* C15: in the streamed pipeline a run whose client went away ends with its
\* workspace removed.
C15_AbortStillCleansUp ==
  \A r \in live :
    (req[r].pipeline = "stream" /\ stream[r].state = "cancelled" /\ pc[r] = "done")
      => loc[r].tempDir \notin fsDirs

\* C15 witness: an event could not be written to the cancelled stream of a
\* run that had a workspace, and the run is over.
C15_Witness ==
  \E r \in live :
    /\ req[r].pipeline = "stream" /\ stream[r].state = "cancelled" /\ pc[r] = "done"
    /\ loc[r].error = "enqueue" /\ loc[r].tempDir # NoDir /\ loc[r].tempDir \notin fsDirs

\* C18: in the streamed pipeline the k-th preview record has page number k
\* and the keys of the k-th preview and thumbnail of the conversion result.
C18_RecordsKeepFanOutOrder ==
  \A r \in live :
    req[r].pipeline = "stream" =>
      \A k \in 1..Len(loc[r].previewRecords) :
        LET rec == loc[r].previewRecords[k]
        IN /\ rec.page_number = k
           /\ rec.preview_url =
                PreviewsKey(loc[r].pptId, loc[r].previews[k].file, loc[r].previews[k].n)
           /\ rec.thumbnail_url =
                PreviewsKey(loc[r].pptId, loc[r].thumbnails[k].file, loc[r].thumbnails[k].n)

\* C18 witness: the task of page 2 was fulfilled before the task of page 1
\* and the records were gathered.
C18_Witness ==
  \E r \in live :
    /\ req[r].pipeline = "stream" /\ Len(loc[r].previewRecords) >= 2
    /\ Len(settled[r]) >= 2 /\ settled[r][1] = 2 /\ settled[r][2] = 1

\* C19: an AI-assisted request that failed after its file row was inserted
\* ends with HTTP 500 and leaves that row, without preview rows and with null
\* original and thumbnail keys.
C19_OrphanFileRow ==
  \A r \in live :
    (req[r].pipeline = "ai" /\ loc[r].inserted /\ loc[r].error # Null /\ pc[r] = "done") =>
      /\ resp[r].status = 500
      /\ Cardinality(RowsOf(r)) = 1
      /\ \A f \in RowsOf(r) : f.r2_file_key = NoKey /\ f.r2_thumbnail_key = NoKey
      /\ PreviewRowsOf(r) = {}

\* C19 witness: the preview batch insert failed after every page was uploaded.
C19_Witness ==
  \E r \in live :
    /\ req[r].pipeline = "ai" /\ pc[r] = "done" /\ loc[r].inserted
    /\ loc[r].error = "previewInsertError" /\ RowsOf(r) # {}

\* C20: a page preview or page thumbnail of a file is in the object store
\* only if the file row has been inserted.
C20_FileRowBeforePageAssets ==
  \A r \in live :
    (\E k \in BlobsOf(r) : k.kind = "previews" /\ k.n >= 1) => loc[r].inserted

\* C16: the classify-text endpoint answers a bad body with 400 and no remote
\* call, a non-OK reply with { error, details } carrying the reply's body, a
\* reply without content with an error and 500, unparseable content with
\* { error, details } and 500, and a classification only for parseable content.
C16_ClassifyFailuresAreErrors ==
  \A r \in live :
    (req[r].pipeline = "classify" /\ pc[r] = "done") =>
      LET b == req[r].body
          reply == loc[r].reply
      IN /\ (b.kind = "object"
               /\ (b.text.type # "string" \/ b.filename.type # "string")) =>
              resp[r].status = 400 /\ "remote" \notin calls[r]
         /\ (reply # NoReply /\ ~reply.ok) =>
              resp[r].body = "error" /\ resp[r].details = reply.text
         /\ (reply.ok /\ reply.json /\ ~HasContent(reply.content)) =>
              resp[r].body = "error" /\ resp[r].status = 500
         /\ (reply.ok /\ reply.json /\ HasContent(reply.content)
               /\ reply.content.t # "json") =>
              /\ resp[r].body = "error" /\ resp[r].status = 500
              /\ resp[r].error = "Model did not return valid JSON."
              /\ resp[r].details = reply.content
         /\ resp[r].body = "classification" =>
              /\ reply.ok /\ reply.content.t = "json"
              /\ resp[r].value = reply.content.v

\* C16 witness: a body without filename was answered 400 while another
\* request got the model's fenced JSON back as an error.
C16_Witness ==
  \E a \in live, b \in live :
    /\ req[a].pipeline = "classify" /\ pc[a] = "done"
    /\ req[a].body.kind = "object" /\ req[a].body.filename = Undefined
    /\ req[a].body.text = Str("slides") /\ resp[a].status = 400
    /\ req[b].pipeline = "classify" /\ pc[b] = "done"
    /\ loc[b].reply.content.t = "fenced" /\ resp[b].status = 500

\* C17: the extract-text endpoint answers every file whose name does not end
\* in .pptx with 400, with no temporary file written and no extractor run.
C17_ExtractRequiresPptxName ==
  \A r \in live :
    (req[r].pipeline = "extract" /\ req[r].hasFile /\ ~EndsWithPptx(req[r].name)) =>
      /\ pc[r] \in {"start", "done"}
      /\ loc[r].tempFilePath = NoPath /\ "extract" \notin calls[r]
      /\ pc[r] = "done" => resp[r].status = 400

\* The last non-empty line of a standard output.
RECURSIVE LastNonEmptyLine(_)
LastNonEmptyLine(lines) ==
  IF lines = <<>> THEN BlankLine
  ELSE IF lines[Len(lines)].t # "blank" THEN lines[Len(lines)]
  ELSE LastNonEmptyLine(SubSeq(lines, 1, Len(lines) - 1))

\* The converter exited with code 0 and the last non-empty line it printed is
\* its JSON result.
ConverterPrintedJson(r) ==
  /\ req[r].pipeline \in {"stream", "ai"} /\ loc[r].convOut.code = 0
  /\ LastNonEmptyLine(loc[r].convOut.stdout).t = "json"

\* C21: in the streamed and the AI-assisted pipelines a converter that exits
\* with code 0 and prints its JSON as the last non-empty line does not fail
\* the request with a parse error, whatever it printed before.
C21_LogLinesBeforeJsonAccepted ==
  \A r \in live :
    ConverterPrintedJson(r) =>
      loc[r].error \notin {"SyntaxError", "Failed to parse Python script output"}

\* The previews and the thumbnails of the request differ in length.
LengthMismatch(r) ==
  \/ /\ req[r].pipeline = "direct"
     /\ req[r].previews.kind = "array" /\ req[r].thumbnails.kind = "array"
     /\ req[r].previews.len # req[r].thumbnails.len
  \/ /\ ConverterPrintedJson(r)
     /\ LET j == LastNonEmptyLine(loc[r].convOut.stdout).v
        IN Len(j.previews) # Len(j.thumbnails)

\* C22: a request whose previews and thumbnails differ in length sends no
\* put and inserts no row.
C22_LengthMismatchRejected ==
  \A r \in live :
    LengthMismatch(r) =>
      /\ puts[r] = <<>> /\ BlobsOf(r) = {}
      /\ ~loc[r].inserted /\ PreviewRowsOf(r) = {}

\* C23: in the streamed and the AI-assisted pipelines a put is sent or a row
\* written only after the converter has exited and its output has ended.
C23_NoWriteBeforeConverterClosed ==
  \A r \in live :
    (req[r].pipeline \in {"stream", "ai"}
       /\ (puts[r] # <<>> \/ loc[r].inserted \/ PreviewRowsOf(r) # {}))
      => proc[r] = "closed"

\* C23 witness: a streamed request has sent its puts and inserted its row
\* after the converter closed.
C23_Witness ==
  \E r \in live :
    /\ req[r].pipeline = "stream" /\ proc[r] = "closed"
    /\ Len(puts[r]) >= 3 /\ loc[r].inserted

\* C24: no request sends a put for a key it has already sent a put for.
C24_NoSecondPutForKey ==
  \A r \in live :
    \A i \in 1..Len(puts[r]), j \in 1..Len(puts[r]) :
      i # j => puts[r][i] # puts[r][j]

\* C25: two requests that are in progress together have distinct workspace
\* directories and distinct temporary files.
C25_DistinctTemporaryPaths ==
  \A a \in live, b \in live :
    a # b =>
      /\ (loc[a].tempDir # NoDir /\ loc[b].tempDir # NoDir) =>
           loc[a].tempDir # loc[b].tempDir
      /\ (loc[a].tempFilePath \in tmpFiles /\ pc[a] # "done" /\ pc[b] # "done") =>
           loc[a].tempFilePath # loc[b].tempFilePath

\* C26: in the streamed and the AI-assisted pipelines the workspace is gone
\* when the done event, or the success response, has been emitted.
C26_ReleaseBeforeSuccessPayload ==
  \A r \in live :
    (req[r].pipeline \in {"stream", "ai"} /\ Succeeded(r)) =>
      loc[r].tempDir \notin fsDirs

\* C27: in the streamed pipeline the workspace is removed only when every
\* per-page upload task of the request is over.
C27_JoinBeforeCleanup ==
  \A r \in live :
    (req[r].pipeline = "stream" /\ loc[r].tempDir # NoDir /\ loc[r].tempDir \notin fsDirs)
      => \A k \in 1..Len(tasks[r]) : tasks[r][k] \in {"done", "failed"}

\* C28: a direct upload whose file-row insert failed ends with no object
\* under its original-file key.
C28_OriginalDeletedAfterInsertError ==
  \A r \in live :
    (req[r].pipeline = "direct" /\ loc[r].error = "pptError" /\ pc[r] = "done")
      => loc[r].pptKey \notin DOMAIN r2

\* C29: two distinct upload requests never send a put for the same key.
C29_NoSharedStorageKey ==
  \A a \in live, b \in live :
    a # b => SeqToSet(puts[a]) \cap SeqToSet(puts[b]) = {}

\* C30: an extract-text request that wrote its temporary file and has
\* completed (extracted, extractor exit non-zero, extractor not started, or
\* reading its output failed) has left no temporary file.
C30_TemporaryFileRemoved ==
  \A r \in live :
    ( /\ req[r].pipeline = "extract" /\ pc[r] = "done"
      /\ loc[r].tempFilePath # NoPath /\ resp[r].details # "unlink" )
    => loc[r].tempFilePath \notin tmpFiles

FinalStatuses == {"completed", "failed", "skipped"}

\* C32: in the batch-upload page at most one file of the queue is Processing,
\* and while the request of a file is in flight every file before it in the
\* run has reached Completed, Failed or Skipped.
C32_OneFileAtATime ==
  LET B == BatchUploadPage IN
  /\ Cardinality({k \in 1..Len(B.files) : B.files[k].status = "processing"}) <= 1
  /\ B.at = "fetch" =>
       \A j \in 1..(B.i - 1) : \A k \in 1..Len(B.files) :
         B.files[k].id = B.filesToProcess[j].id => B.files[k].status \in FinalStatuses

\* C33: during a run a file's status only goes Pending -> Processing and
\* Processing -> Completed, Failed or Skipped (a final status is kept); when
\* the run ends every file of the run has a final status, whatever the
\* outcomes of the files before it, and isProcessing is false.
C33_StatusLifecycle ==
  [][LET B == BatchUploadPage
         C == BatchUploadPage'
     IN /\ B.isProcessing =>
             \A k \in 1..Len(B.files) :
               C.files[k].status # B.files[k].status =>
                 \/ B.files[k].status = "pending" /\ C.files[k].status = "processing"
                 \/ B.files[k].status = "processing" /\ C.files[k].status \in FinalStatuses
        /\ (B.at = "loop" /\ C.at = "idle") =>
             /\ ~C.isProcessing
             /\ \A j \in 1..Len(B.filesToProcess) : \A k \in 1..Len(C.files) :
                  C.files[k].id = B.filesToProcess[j].id => C.files[k].status \in FinalStatuses
    ]_vars

\* C34: when a run of the batch-upload page ends (and announces that all
\* pending files have been processed) no file of the queue is Pending.
C34_NothingPendingWhenRunEnds ==
  [][(BatchUploadPage.isProcessing /\ ~BatchUploadPage'.isProcessing) =>
       \A k \in 1..Len(BatchUploadPage'.files) :
         BatchUploadPage'.files[k].status # "pending"]_vars

\* C37: no two entries of the batch-upload queue have the same id.
C37_QueueIdsDistinct ==
  \A j \in 1..Len(BatchUploadPage.files), k \in 1..Len(BatchUploadPage.files) :
    j # k => BatchUploadPage.files[j].id # BatchUploadPage.files[k].id

\* C35: every request the upload form submits carries as many thumbnails as
\* previews, and thumbnail i was generated from preview i.
C35_ThumbnailsMatchPreviews ==
  \A f \in TestUpload.sent :
    /\ Len(f.thumbnails) = Len(f.previews)
    /\ \A k \in 1..Len(f.previews) :
         k <= Len(f.thumbnails) => f.thumbnails[k].of = f.previews[k]

\* C36: the fileUrl of a direct upload's success response has as its path the
\* key under which the request put the original file.
C36_FileUrlIsOriginalKey ==
  \A r \in live :
    (req[r].pipeline = "direct" /\ pc[r] = "done" /\ resp[r].status = 200
       /\ resp[r].body = "success")
      => /\ Len(resp[r].fileUrl.path) = Len(KeyPath(loc[r].pptKey))
         /\ resp[r].fileUrl.path = KeyPath(loc[r].pptKey)
====
